---------------------------- MODULE Spec2Model ----------------------------
(***************************************************************************)
(* A model of thlstsul/http-proxy-server: the CONNECT / plain-HTTP request *)
(* handler of src/src/proxy.rs, the host policy of src/src/config.rs, the  *)
(* SNI choice of src/src/state.rs and the leaf issuer with its bounded     *)
(* cache (src/src/ca.rs, src/src/state.rs); the accept loop of             *)
(* src/src/main.rs, the root's load_or_create of src/src/ca.rs, the        *)
(* request codec of src/src/codec.rs, the logging middleware of            *)
(* src/src/layer/log.rs, the byte relay of a tunnel (tokio's               *)
(* copy_bidirectional), the session of an intercepted tunnel and the       *)
(* rewriting stream of src/src/stream.rs.                                  *)
(*                                                                         *)
(* Strings are sequences of byte values, as Rust's str is.                 *)
(***************************************************************************)
EXTENDS Naturals, Integers, Sequences, FiniteSets, TLC

VARIABLES
    config,     \* Config { proxy_hosts, sni, parse }: immutable after load
    root_ca,    \* the root CA { cert: {subject, skid}, key }
    cache,      \* SIGNED_CA: SizedCache<String, CA>, most recently used first
    minted,     \* number of leaves minted so far (the next leaf's serial/key)
    req,        \* per connection: the request being handled, or NoReq
    resp,       \* per connection: the response of proxy(), or NoResp
    hpc,        \* per connection: position of the proxy() future
    tpc,        \* per connection: position of the spawned tunnel task
    tleaf,      \* per connection: the leaf the tunnel task holds, or NoLeaf
    tdid,       \* per connection: what the tunnel task has done so far
    dials,      \* upstream connections dialed so far
    pol,        \* the policy functions applied to drawn inputs
    sq,         \* sequential get_signed_cert calls, with their history
    lock,       \* the Mutex around SIGNED_CA: its holder, and whether poisoned
    main_pc,    \* position of main(): its accept loop
    boot,       \* CA::load_or_create run at startup: the CA files, the runs
    cdc,        \* RequestExt::encode and decode applied to a drawn request
    lg,         \* Log::call around an inner service
    cp,         \* copy_bidirectional of a tunnel: its two streams
    strm,       \* an HttpClientStream and the stream it wraps
    sess        \* an intercepted TLS session served in parse mode

vars == <<config, root_ca, cache, minted, req, resp, hpc, tpc, tleaf, tdid,
          dials, pol, sq, lock, main_pc, boot, cdc, lg, cp, strm, sess>>

---------------------------------------------------------------------------
(* Bounds of the model *)

MaxConn == 2        \* connections accepted
MaxHostLen == 2     \* length of the strings drawn for the policy functions
MaxListLen == 2     \* length of the proxy_hosts lists drawn
MaxCalls == 4       \* sequential get_signed_cert calls after the warm-up

(* Program constants *)

SIGNED_CA_SIZE == 50    \* SizedCache::with_size(50)
DEFAULT_PORT == 80      \* port_u16().unwrap_or(80)

---------------------------------------------------------------------------
(* Strings *)

Alphabet == {97, 98}                    \* "a", "b"

RECURSIVE StringsOfLen(_)
StringsOfLen(n) ==
    IF n = 0 THEN {<<>>}
    ELSE {Append(s, ch) : s \in StringsOfLen(n - 1), ch \in Alphabet}

StringsUpTo(n) == UNION {StringsOfLen(k) : k \in 0..n}

RECURSIVE ListsOfLen(_, _)
ListsOfLen(S, n) ==
    IF n = 0 THEN {<<>>}
    ELSE {Append(l, s) : l \in ListsOfLen(S, n - 1), s \in S}

ListsUpTo(S, n) == UNION {ListsOfLen(S, k) : k \in 0..n}

\* str::ends_with: the last Len(suffix) bytes of s are suffix
ends_with(s, suffix) ==
    /\ Len(suffix) <= Len(s)
    /\ SubSeq(s, Len(s) - Len(suffix) + 1, Len(s)) = suffix

---------------------------------------------------------------------------
(* Config::is_proxy and State::get_sni *)

is_proxy_no_empty_rule(proxy_hosts, domain) ==
    \E i \in 1..Len(proxy_hosts) : ends_with(domain, proxy_hosts[i])

is_proxy(proxy_hosts, domain) ==
    IF proxy_hosts = <<>>
    THEN TRUE
    ELSE \E i \in 1..Len(proxy_hosts) : ends_with(domain, proxy_hosts[i])

get_sni(sni, host) ==
    IF sni = <<>> THEN host ELSE sni

---------------------------------------------------------------------------
(* The certificates of ca.rs.  A key is <<"root", g>> (the g-th root the   *)
(* program generated) or <<"leaf", n>> (the key of the n-th leaf minted);  *)
(* Rsa::generate never returns the same key twice.  A serial number is a   *)
(* random 159-bit integer: the n-th leaf's serial is modelled as n, two    *)
(* mints never drawing the same one.                                       *)

NoLeaf == [none |-> TRUE]

\* "thlstsul.github.io"
ROOT_CN == <<116, 104, 108, 115, 116, 115, 117, 108, 46,
             103, 105, 116, 104, 117, 98, 46, 105, 111>>

\* X509NameBuilder: C=CN, ST=GuangDong, O=thlstsul, CN=<cn>
x509_name(cn) == [C |-> "CN", ST |-> "GuangDong", O |-> "thlstsul", CN |-> cn]

\* mk_ca_cert: a self-signed root with a fresh key
mk_ca_cert(g) ==
    [cert |-> [serial    |-> 0,
               subject   |-> x509_name(ROOT_CN),
               issuer    |-> x509_name(ROOT_CN),
               pubkey    |-> <<"root", g>>,
               is_ca     |-> TRUE,
               cert_sign |-> TRUE,
               skid      |-> <<"root", g>>,
               akid      |-> <<"none", 0>>,
               san       |-> <<>>,
               signed_by |-> <<"root", g>>],
     key  |-> <<"root", g>>]

\* mk_request: the CSR's subject
mk_request(key, domain) == [pubkey |-> key, subject |-> x509_name(domain)]

sign_ca_cert_self_issued(ca, domain, n) ==
    LET key == <<"leaf", n>>
        csr == mk_request(key, domain)
    IN  [cert |-> [serial    |-> n,
                   subject   |-> csr.subject,
                   issuer    |-> csr.subject,
                   pubkey    |-> key,
                   is_ca     |-> FALSE,
                   cert_sign |-> FALSE,
                   skid      |-> key,
                   akid      |-> ca.cert.skid,
                   san       |-> domain,
                   signed_by |-> key],
         key  |-> key]

\* sign_ca_cert(ca, domain), as the n-th mint
sign_ca_cert(ca, domain, n) ==
    LET key == <<"leaf", n>>
        csr == mk_request(key, domain)
    IN  [cert |-> [serial    |-> n,
                   subject   |-> csr.subject,
                   issuer    |-> ca.cert.subject,
                   pubkey    |-> key,
                   is_ca     |-> FALSE,
                   cert_sign |-> FALSE,
                   skid      |-> key,
                   akid      |-> ca.cert.skid,
                   san       |-> domain,
                   signed_by |-> ca.key],
         key  |-> key]

\* X509::issued (X509_check_issued): the names match, the authority key id
\* (when both are present) matches, and the issuer may sign certificates
issued(issuer_cert, subject_cert) ==
    /\ subject_cert.issuer = issuer_cert.subject
    /\ \/ subject_cert.akid = <<"none", 0>>
       \/ issuer_cert.skid = <<"none", 0>>
       \/ subject_cert.akid = issuer_cert.skid
    /\ issuer_cert.cert_sign

---------------------------------------------------------------------------
(* SIGNED_CA: SizedCache<String, CA> of the cached crate, an LRU store.    *)
(* The sequence holds the entries most recently used first; the entry at   *)
(* the back is the one evicted.                                            *)

cache_keys(c) == {c[i].key : i \in 1..Len(c)}

cache_index(c, k) == CHOOSE i \in 1..Len(c) : c[i].key = k

cache_remove(c, i) == SubSeq(c, 1, i - 1) \o SubSeq(c, i + 1, Len(c))

cache_get_no_touch(c, k) ==
    IF k \in cache_keys(c)
    THEN [cache |-> c, val |-> c[cache_index(c, k)].val]
    ELSE [cache |-> c, val |-> NoLeaf]

\* Cached::cache_get: a hit moves the entry to the front
cache_get(c, k) ==
    IF k \in cache_keys(c)
    THEN LET i == cache_index(c, k)
         IN  [cache |-> <<c[i]>> \o cache_remove(c, i), val |-> c[i].val]
    ELSE [cache |-> c, val |-> NoLeaf]

\* SizedCache::check_capacity: at capacity the entry at the back is evicted
check_capacity_never(c) == c

check_capacity(c) ==
    IF Len(c) >= SIGNED_CA_SIZE THEN SubSeq(c, 1, Len(c) - 1) ELSE c

cache_set_no_insert(c, k, v) == c

cache_set_keep_old(c, k, v) ==
    LET d == check_capacity(c)
    IN  IF k \in cache_keys(d)
        THEN LET i == cache_index(d, k)
             IN  <<d[i]>> \o cache_remove(d, i)
        ELSE <<[key |-> k, val |-> v]>> \o d

\* Cached::cache_set: check_capacity, then the entry is set and moved (or
\* pushed) to the front
cache_set(c, k, v) ==
    LET d == check_capacity(c)
    IN  IF k \in cache_keys(d)
        THEN LET i == cache_index(d, k)
             IN  <<[key |-> k, val |-> v]>> \o cache_remove(d, i)
        ELSE <<[key |-> k, val |-> v]>> \o d

\* State::get_signed_cert run to completion with no other call in between:
\* the lookup of get_cached_cert (the macro's, then the body's, which both
\* miss or both hit), and on a miss root_ca.sign and the insert.
get_signed_cert(c, root, host, n) ==
    LET got == cache_get(c, host)
    IN  IF got.val # NoLeaf
        THEN [cache |-> got.cache, ca |-> got.val, minted |-> n, hit |-> TRUE]
        ELSE LET ca == sign_ca_cert(root, host, n + 1)
             IN  [cache |-> cache_set(cache_get(got.cache, host).cache, host, ca),
                  ca |-> ca, minted |-> n + 1, hit |-> FALSE]

\* A host the proxy has served before: "<i>a"
WarmHost(i) == <<i, 97>>

\* The cache after get_signed_cert for WarmHost(1), ..., WarmHost(k) in turn,
\* on an empty cache (k <= SIGNED_CA_SIZE): each call missed, minted the i-th
\* leaf and pushed it to the front
Warm(root, k) ==
    [j \in 1..k |-> [key |-> WarmHost(k + 1 - j),
                     val |-> sign_ca_cert(root, WarmHost(k + 1 - j), k + 1 - j)]]

---------------------------------------------------------------------------
(* The values of the variables a specification does not use *)

NoReq == [none |-> TRUE]
NoResp == [none |-> TRUE]
Conn == 1..MaxConn

DefaultConfig == [proxy_hosts |-> <<>>, sni |-> <<>>, parse |-> FALSE]

IdleConns ==
    /\ req = [c \in Conn |-> NoReq]
    /\ resp = [c \in Conn |-> NoResp]
    /\ hpc = [c \in Conn |-> "idle"]
    /\ tpc = [c \in Conn |-> "none"]
    /\ tleaf = [c \in Conn |-> NoLeaf]
    /\ tdid = [c \in Conn |-> {}]
    /\ dials = {}

NoPol == [pc |-> "unused"]
NoSq == [pc |-> "unused"]
NoBoot == [pc |-> "unused"]
NoCdc == [pc |-> "unused"]
NoLg == [pc |-> "unused"]
NoCp == [pc |-> "unused"]
NoStrm == [pc |-> "unused"]
NoSess == [pc |-> "unused"]

\* no task holds the Mutex
NoHolder == 0

\* the Mutex of SIGNED_CA as Lazy::new leaves it
FreeLock == [holder |-> NoHolder, poisoned |-> FALSE]

\* main() past its startup, in its accept loop, with nothing locked
Running ==
    /\ lock = FreeLock
    /\ main_pc = "accepting"

\* no stream is being copied, wrapped or served
NoStreams ==
    /\ cp = NoCp
    /\ strm = NoStrm
    /\ sess = NoSess

connVars == <<req, resp, hpc, tpc, tleaf, tdid, dials>>
procVars == <<lock, main_pc>>
unitVars == <<boot, cdc, lg>>
ioVars == <<cp, strm, sess>>

---------------------------------------------------------------------------
(* Config::is_proxy and State::get_sni applied to drawn inputs *)

PolStrings == StringsUpTo(MaxHostLen)
PolSnis == {<<>>, <<102>>}              \* "", "f"

PolicyInit ==
    /\ config = DefaultConfig
    /\ root_ca = mk_ca_cert(1)
    /\ cache = <<>>
    /\ minted = 0
    /\ IdleConns
    /\ NoStreams
    /\ Running
    /\ sq = NoSq
    /\ boot = NoBoot /\ cdc = NoCdc /\ lg = NoLg
    /\ \E h \in PolStrings, s \in PolSnis,
          l \in ListsUpTo(PolStrings, MaxListLen) :
          pol = [pc |-> "input", host |-> h, proxy_hosts |-> l, sni |-> s,
                 proxied |-> FALSE, sni_out |-> <<>>]

CallIsProxy ==
    /\ pol.pc = "input"
    /\ pol' = [pol EXCEPT !.pc = "is_proxy",
                          !.proxied = is_proxy(pol.proxy_hosts, pol.host)]
    /\ UNCHANGED <<config, root_ca, cache, minted, connVars, sq, procVars, ioVars, unitVars>>

CallGetSni ==
    /\ pol.pc = "input"
    /\ pol' = [pol EXCEPT !.pc = "get_sni",
                          !.sni_out = get_sni(pol.sni, pol.host)]
    /\ UNCHANGED <<config, root_ca, cache, minted, connVars, sq, procVars, ioVars, unitVars>>

PolicyNext == CallIsProxy \/ CallGetSni

SpecPolicy == PolicyInit /\ [][PolicyNext]_vars

---------------------------------------------------------------------------
(* get_signed_cert called again and again, one call at a time, on a cache  *)
(* the proxy has filled before.  sq keeps the history of the calls: the    *)
(* hosts asked for, what each call returned, and when each host was last   *)
(* used (looked up with success, or inserted).                             *)

RootGens == {1, 2}
SeqWarmSizes == {0, SIGNED_CA_SIZE - 1, SIGNED_CA_SIZE}
SeqHosts == {WarmHost(1), WarmHost(2), <<97>>, <<98>>}

WarmHosts(k) == {WarmHost(i) : i \in 1..k}

SeqInit ==
    /\ config = DefaultConfig
    /\ IdleConns
    /\ NoStreams
    /\ Running
    /\ pol = NoPol
    /\ boot = NoBoot /\ cdc = NoCdc /\ lg = NoLg
    /\ \E g \in RootGens, k \in SeqWarmSizes :
          /\ root_ca = mk_ca_cert(g)
          /\ cache = Warm(mk_ca_cert(g), k)
          /\ minted = k
          /\ sq = [pc       |-> "ready",
                   n        |-> 0,
                   called   |-> WarmHosts(k),
                   returned |-> {[host |-> WarmHost(i),
                                  ca |-> sign_ca_cert(mk_ca_cert(g), WarmHost(i), i)] :
                                 i \in 1..k},
                   clock    |-> k,
                   last_use |-> [h \in WarmHosts(k) |->
                                   CHOOSE i \in 1..k : WarmHost(i) = h],
                   host     |-> <<>>,
                   hit      |-> FALSE]

\* One call of get_signed_cert(host), from the lookup to its return
SeqCall(host) ==
    /\ sq.pc = "ready"
    /\ sq.n < MaxCalls
    /\ LET r == get_signed_cert(cache, root_ca, host, minted)
       IN  /\ cache' = r.cache
           /\ minted' = r.minted
           /\ sq' = [sq EXCEPT
                       !.n = @ + 1,
                       !.called = @ \cup {host},
                       !.returned = @ \cup {[host |-> host, ca |-> r.ca]},
                       !.clock = @ + 1,
                       !.last_use = [h \in DOMAIN @ \cup {host} |->
                                       IF h = host THEN sq.clock + 1 ELSE @[h]],
                       !.host = host,
                       !.hit = r.hit]
    /\ UNCHANGED <<config, root_ca, connVars, pol, procVars, ioVars, unitVars>>

SeqNext == \E host \in SeqHosts : SeqCall(host)

SpecSeq == SeqInit /\ [][SeqNext]_vars

---------------------------------------------------------------------------
(* The proxy: proxy() of proxy.rs run once per accepted connection, and    *)
(* the tunnel task it spawns for a CONNECT.                                *)

NoAuthority == <<>>      \* Uri::authority() is None
NoHost == <<>>           \* Uri::host() is None
NoAddr == [none |-> TRUE]
NoSni == <<>>

\* A Uri is its scheme ("" when it has none), its authority <<host, port>>
\* (port 0 when it names none) or NoAuthority, and nothing else the handler
\* reads.
Uri(scheme, authority) == [scheme |-> scheme, authority |-> authority]

ReqHosts == {<<97>>, <<98>>}

Requests ==
    {[method |-> "CONNECT", uri |-> Uri("", <<h, 443>>)] : h \in ReqHosts}
    \cup {[method |-> "CONNECT", uri |-> Uri("", NoAuthority)]}
    \cup {[method |-> "GET", uri |-> Uri("http", <<<<98>>, 0>>)],
          [method |-> "GET", uri |-> Uri("", NoAuthority)]}

Configs ==
    [proxy_hosts : {<<>>, <<<<97>>>>}, sni : {<<>>, <<102>>}, parse : BOOLEAN]

Response(status, body) == [status |-> status, body |-> body]

\* what the origin answers to a forwarded request
OriginResponse == Response(200, "hi")

\* Uri::host
uri_host(uri) == IF uri.authority = NoAuthority THEN NoHost
                 ELSE uri.authority[1]

\* host_addr: Some((authority, host)) or None
host_addr_no_check(uri) ==
    [addr |-> uri.authority,
     host |-> IF uri.authority = NoAuthority THEN <<>> ELSE uri.authority[1]]

host_addr(uri) ==
    IF uri.authority = NoAuthority \/ uri_host(uri) = NoHost
    THEN NoAddr
    ELSE [addr |-> uri.authority, host |-> uri_host(uri)]

\* proxy(), plain HTTP: format!("{}:{}", host, port_u16().unwrap_or(80))
plain_addr(uri) ==
    <<uri_host(uri),
      IF uri.authority[2] = 0 THEN DEFAULT_PORT ELSE uri.authority[2]>>

\* transform_tunnel: let sni = if sni.is_empty() { &host } else { sni }
tunnel_sni_always_override(sni, host) == sni

tunnel_sni(sni, host) == IF sni = <<>> THEN host ELSE sni

Dial(c, addr, sni, tls) == [conn |-> c, addr |-> addr, sni |-> sni, tls |-> tls]

\* a dial and how it ended: connected, or failed (TCP or TLS connect)
Dialed(c, addr, sni, tls, ok) == Dial(c, addr, sni, tls) @@ [ok |-> ok]

MainInit ==
    /\ config \in Configs
    /\ root_ca = mk_ca_cert(1)
    /\ cache = <<>>
    /\ minted = 0
    /\ IdleConns
    /\ NoStreams
    /\ Running
    /\ pol = NoPol
    /\ sq = NoSq
    /\ boot = NoBoot /\ cdc = NoCdc /\ lg = NoLg

cacheVars == <<cache, minted, lock>>
fixedVars == <<config, root_ca, main_pc, pol, sq, boot, cdc, lg, cp, strm, sess>>

\* the response of proxy() to a CONNECT with an authority
connect_reply_406 == Response(406, "")

connect_reply == Response(200, "")

\* main(): the next turn of the accept loop is for slot c
Accepting(c) ==
    /\ main_pc = "accepting"
    /\ hpc[c] = "idle"
    /\ \A d \in 1..(c - 1) : hpc[d] # "idle"    \* accepted in turn

\* main(): Err(err) => error!("Failed to accept: {err}"), and the loop
\* goes on
on_accept_error_exits == "exited"

on_accept_error == "accepting"

\* main(): listener.accept().await fails
AcceptError(c) ==
    /\ Accepting(c)
    /\ hpc' = [hpc EXCEPT ![c] = "accept error"]
    /\ main_pc' = on_accept_error
    /\ UNCHANGED <<req, resp, tpc, tleaf, tdid, dials, cacheVars,
                   config, root_ca, pol, sq, unitVars, ioVars>>

\* proxy(req, config, root_ca) for the request r of connection c, up to
\* its first await or its return
Handle(c, r) ==
    /\ req' = [req EXCEPT ![c] = r]
    /\ IF r.method = "CONNECT"
       THEN IF host_addr(r.uri) # NoAddr
            THEN /\ tpc' = [tpc EXCEPT ![c] = "upgrade"]  \* spawned
                 /\ resp' = [resp EXCEPT ![c] = connect_reply]
                 /\ hpc' = [hpc EXCEPT ![c] = "done"]
            ELSE /\ resp' = [resp EXCEPT ![c] =
                       Response(400, "CONNECT must be to a socket address")]
                 /\ hpc' = [hpc EXCEPT ![c] = "done"]
                 /\ tpc' = tpc
       ELSE /\ IF uri_host(r.uri) = NoHost
               THEN hpc' = [hpc EXCEPT ![c] = "panicked"]  \* expect("uri has no host")
               ELSE hpc' = [hpc EXCEPT ![c] = "connect"]
            /\ UNCHANGED <<resp, tpc>>
    /\ UNCHANGED <<tleaf, tdid, dials, cacheVars, fixedVars>>

\* main() accepts a connection and spawns its task, which runs proxy() on
\* the request read
Proxy(c) ==
    /\ Accepting(c)
    /\ \E r \in Requests : Handle(c, r)

\* proxy(), plain HTTP: TcpStream::connect(addr).await.unwrap()
PlainConnect(c) ==
    /\ hpc[c] = "connect"
    /\ \E ok \in BOOLEAN :
          /\ dials' = dials \cup
                {Dialed(c, plain_addr(req[c].uri), NoSni, FALSE, ok)}
          /\ hpc' = [hpc EXCEPT ![c] = IF ok THEN "send" ELSE "panicked"]
    /\ UNCHANGED <<req, resp, tpc, tleaf, tdid, cacheVars, fixedVars>>

\* proxy(), plain HTTP: handshake(stream).await? and send_request(req).await?
PlainSend(c) ==
    /\ hpc[c] = "send"
    /\ \E ok \in BOOLEAN :
          IF ok
          THEN /\ resp' = [resp EXCEPT ![c] = OriginResponse]
               /\ hpc' = [hpc EXCEPT ![c] = "done"]
          ELSE /\ resp' = resp
               /\ hpc' = [hpc EXCEPT ![c] = "error"]
    /\ UNCHANGED <<req, tpc, tleaf, tdid, dials, cacheVars, fixedVars>>

---------------------------------------------------------------------------
(* The task spawned for a CONNECT (proxy.rs, lines 74 to 104).  Each       *)
(* action is one stretch of the task between two awaits or two             *)
(* acquisitions of the cache's lock; tdid records what the task has done.  *)

THost(c) == host_addr(req[c].uri).host
TAddr(c) == host_addr(req[c].uri).addr

Step(c, pc, tags) ==
    /\ tpc' = [tpc EXCEPT ![c] = pc]
    /\ tdid' = [tdid EXCEPT ![c] = @ \cup tags]

\* the branch the task takes once upgraded
dispatch_inverted(proxy_hosts, host) ==
    IF is_proxy(proxy_hosts, host) THEN "raw_connect" ELSE "lookup"

dispatch_always_lookup(proxy_hosts, host) == "lookup"

dispatch(proxy_hosts, host) ==
    IF is_proxy(proxy_hosts, host) THEN "lookup" ELSE "raw_connect"

\* hyper::upgrade::on(req).await, then the branch on config.is_proxy(&host)
Upgrade(c) ==
    /\ tpc[c] = "upgrade"
    /\ \E ok \in BOOLEAN :
          IF ok
          THEN Step(c, dispatch(config.proxy_hosts, THost(c)), {"upgraded"})
          ELSE Step(c, "done", {"upgrade error"})
    /\ UNCHANGED <<req, resp, hpc, tleaf, dials, cacheVars, fixedVars>>

\* A MutexGuard taken inside a block is dropped at the block's end: the
\* Mutex has no holder once the stretch that locked it is over.
guard_kept(lk, c) == [lk EXCEPT !.holder = c]

guard_dropped(lk, c) == [lk EXCEPT !.holder = NoHolder]

\* SIGNED_CA.lock() returns at once only while no task holds the Mutex
CanLock(c) == lock.holder = NoHolder

\* get_cached_cert, the lookup the cached_result! macro makes first, under
\* its own SIGNED_CA.lock().unwrap()
CacheLookup(c) ==
    /\ tpc[c] = "lookup"
    /\ CanLock(c)
    /\ IF lock.poisoned
       THEN /\ UNCHANGED <<cache, tleaf>>
            /\ Step(c, "panicked", {"get_signed_cert", "lock poisoned"})
       ELSE LET got == cache_get(cache, THost(c))
            IN  /\ cache' = got.cache
                /\ IF got.val # NoLeaf
                   THEN /\ tleaf' = [tleaf EXCEPT ![c] = got.val]
                        /\ Step(c, "tls_accept", {"get_signed_cert", "hit"})
                   ELSE /\ tleaf' = tleaf
                        /\ Step(c, "body", {"get_signed_cert"})
    /\ lock' = guard_dropped(lock, c)
    /\ UNCHANGED <<req, resp, hpc, dials, minted, fixedVars>>

\* get_cached_cert, its body: SIGNED_CA.lock().map_err(..)?, then
\* cache_get(&host).cloned().ok_or(..); get_signed_cert takes any Err of
\* it, the poisoned lock's too, as a miss
CacheBody(c) ==
    /\ tpc[c] = "body"
    /\ CanLock(c)
    /\ IF lock.poisoned
       THEN /\ UNCHANGED <<cache, tleaf>>
            /\ Step(c, "sign", {"lock poisoned"})
       ELSE LET got == cache_get(cache, THost(c))
            IN  /\ cache' = got.cache
                /\ IF got.val # NoLeaf
                   THEN /\ tleaf' = [tleaf EXCEPT ![c] = got.val]
                        /\ Step(c, "memo", {"hit"})
                   ELSE /\ tleaf' = tleaf
                        /\ Step(c, "sign", {})
    /\ lock' = guard_dropped(lock, c)
    /\ UNCHANGED <<req, resp, hpc, dials, minted, fixedVars>>

\* get_cached_cert, the macro storing the Ok value of the body under
\* SIGNED_CA.lock().unwrap()
CacheMemo(c) ==
    /\ tpc[c] = "memo"
    /\ CanLock(c)
    /\ IF lock.poisoned
       THEN /\ cache' = cache
            /\ Step(c, "panicked", {"lock poisoned"})
       ELSE /\ cache' = cache_set(cache, THost(c), tleaf[c])
            /\ Step(c, "tls_accept", {})
    /\ lock' = guard_dropped(lock, c)
    /\ UNCHANGED <<req, resp, hpc, tleaf, dials, minted, fixedVars>>

\* where root_ca.sign runs: get_signed_cert is a plain function called
\* inside the async block of the tunnel task
sign_runs_on == "async task"

\* proxy(): Err(e) => Err(e) for the leaf, then error!("server io error"):
\* the task ends
after_sign_error_accepts == "tls_accept"

after_sign_error == "done"

\* root_ca.sign(host.clone()), outside the lock
Sign(c) ==
    /\ tpc[c] = "sign"
    /\ \E ok \in BOOLEAN :
          IF ok
          THEN /\ minted' = minted + 1
               /\ tleaf' = [tleaf EXCEPT ![c] =
                              sign_ca_cert(root_ca, THost(c), minted + 1)]
               /\ Step(c, "insert", {"minted", "sign on " \o sign_runs_on})
          ELSE /\ UNCHANGED <<minted, tleaf>>
               /\ Step(c, after_sign_error,
                       {"sign error", "server io error",
                        "sign on " \o sign_runs_on})
    /\ UNCHANGED <<req, resp, hpc, dials, cache, lock, fixedVars>>

\* match SIGNED_CA.lock(): Ok(cache) => cache.cache_set(host, ca.clone()),
\* Err(e) => Err(anyhow!(..)), which the task logs
CacheInsert(c) ==
    /\ tpc[c] = "insert"
    /\ CanLock(c)
    /\ IF lock.poisoned
       THEN /\ cache' = cache
            /\ Step(c, "done", {"lock poisoned", "server io error"})
       ELSE /\ cache' = cache_set(cache, THost(c), tleaf[c])
            /\ Step(c, "tls_accept", {"inserted"})
    /\ lock' = guard_dropped(lock, c)
    /\ UNCHANGED <<req, resp, hpc, tleaf, dials, minted, fixedVars>>

\* transform_tunnel: if parse { serve_connection } else { dial and copy }
tunnel_mode_always_bridge(parse) == "bridge_connect"

tunnel_mode(parse) == IF parse THEN "serving" ELSE "bridge_connect"

\* transform_tunnel: Pin::new(&mut input).accept().await? returns the
\* error, which the task logs ("server io error") before it ends
after_accept_error_dials == "bridge_connect"

after_accept_error == "done"

\* transform_tunnel: the acceptor built from the leaf, accept().await?,
\* then the branch on parse
TlsAccept(c) ==
    /\ tpc[c] = "tls_accept"
    /\ \E ok \in BOOLEAN :
          IF ok
          THEN IF tunnel_mode(config.parse) = "serving"
               THEN Step(c, "serving", {"tls_accept", "accepted", "serve"})
               ELSE Step(c, "bridge_connect", {"tls_accept", "accepted"})
          ELSE Step(c, after_accept_error, {"tls_accept", "server io error"})
    /\ UNCHANGED <<req, resp, hpc, tleaf, dials, cacheVars, fixedVars>>

\* transform_tunnel, parse = false: get_ssl_connection(addr, sni).await?
BridgeConnect(c) ==
    /\ tpc[c] = "bridge_connect"
    /\ \E ok \in BOOLEAN :
          /\ dials' = dials \cup
                {Dialed(c, TAddr(c), tunnel_sni(config.sni, THost(c)), TRUE, ok)}
          /\ IF ok
             THEN Step(c, "bridge_copy", {"bridge_dial", "bridge_copy"})
             ELSE Step(c, "done", {"bridge_dial", "server io error"})
    /\ UNCHANGED <<req, resp, hpc, tleaf, cacheVars, fixedVars>>

\* transform_tunnel, parse = false: copy_bidirectional(input, output)
\* ends, with Ok or with an error that is only logged
BridgeCopy(c) ==
    /\ tpc[c] = "bridge_copy"
    /\ Step(c, "done", {})
    /\ UNCHANGED <<req, resp, hpc, tleaf, dials, cacheVars, fixedVars>>

\* transform_tunnel, parse = true: serve_connection reads the next request
\* of the session and calls HttpsClient; https_request:
\* get_ssl_connection(addr, &sni).await.unwrap()
InnerConnect(c) ==
    /\ tpc[c] = "serving"
    /\ \E ok \in BOOLEAN :
          /\ dials' = dials \cup
                {Dialed(c, TAddr(c), tunnel_sni(config.sni, THost(c)), TRUE, ok)}
          /\ IF ok
             THEN Step(c, "inner_send", {})
             ELSE Step(c, "panicked", {})
    /\ UNCHANGED <<req, resp, hpc, tleaf, cacheVars, fixedVars>>

\* https_request: handshake(output).await?, send_request(req).await?
InnerSend(c) ==
    /\ tpc[c] = "inner_send"
    /\ \E ok \in BOOLEAN :
          IF ok
          THEN Step(c, "serving", {"inner response"})
          ELSE Step(c, "done", {"server io error"})
    /\ UNCHANGED <<req, resp, hpc, tleaf, dials, cacheVars, fixedVars>>

\* transform_tunnel, parse = true: the client ends the session
ServeClose(c) ==
    /\ tpc[c] = "serving"
    /\ Step(c, "done", {})
    /\ UNCHANGED <<req, resp, hpc, tleaf, dials, cacheVars, fixedVars>>

\* direct_tunnel: TcpStream::connect(addr).await?
RawConnect(c) ==
    /\ tpc[c] = "raw_connect"
    /\ \E ok \in BOOLEAN :
          /\ dials' = dials \cup {Dialed(c, TAddr(c), NoSni, FALSE, ok)}
          /\ IF ok
             THEN Step(c, "raw_copy", {"direct_tunnel", "raw_copy"})
             ELSE Step(c, "done", {"direct_tunnel", "server io error"})
    /\ UNCHANGED <<req, resp, hpc, tleaf, cacheVars, fixedVars>>

\* direct_tunnel: copy_bidirectional(upgraded, server) ends, with Ok or
\* with an error that is only logged
RawCopy(c) ==
    /\ tpc[c] = "raw_copy"
    /\ Step(c, "done", {})
    /\ UNCHANGED <<req, resp, hpc, tleaf, dials, cacheVars, fixedVars>>

Next ==
    \E c \in Conn :
        \/ AcceptError(c)
        \/ Proxy(c)
        \/ PlainConnect(c)
        \/ PlainSend(c)
        \/ Upgrade(c)
        \/ CacheLookup(c)
        \/ CacheBody(c)
        \/ CacheMemo(c)
        \/ Sign(c)
        \/ CacheInsert(c)
        \/ TlsAccept(c)
        \/ BridgeConnect(c)
        \/ BridgeCopy(c)
        \/ InnerConnect(c)
        \/ InnerSend(c)
        \/ ServeClose(c)
        \/ RawConnect(c)
        \/ RawCopy(c)

Spec == MainInit /\ [][Next]_vars

---------------------------------------------------------------------------
(* Concurrent get_signed_cert calls on a cache at (or one below) capacity: *)
(* tunnel tasks of CONNECTs for proxied hosts, from the call on; the       *)
(* actions are the main specification's.                                   *)

CacheWarmSizes == {SIGNED_CA_SIZE - 1, SIGNED_CA_SIZE}
CacheHosts == {<<97>>, <<98>>, WarmHost(1), WarmHost(2)}

CacheInit ==
    /\ config = DefaultConfig
    /\ root_ca = mk_ca_cert(1)
    /\ \E k \in CacheWarmSizes :
          /\ cache = Warm(mk_ca_cert(1), k)
          /\ minted = k
    /\ IdleConns
    /\ NoStreams
    /\ Running
    /\ pol = NoPol
    /\ sq = NoSq
    /\ boot = NoBoot /\ cdc = NoCdc /\ lg = NoLg

\* a CONNECT for a proxied host was answered and upgraded: its task calls
\* get_signed_cert(host.clone(), &root_ca)
StartCall(c) ==
    /\ Accepting(c)
    /\ \E h \in CacheHosts :
          /\ is_proxy(config.proxy_hosts, h)
          /\ req' = [req EXCEPT ![c] =
                       [method |-> "CONNECT", uri |-> Uri("", <<h, 443>>)]]
    /\ resp' = [resp EXCEPT ![c] = connect_reply]
    /\ hpc' = [hpc EXCEPT ![c] = "done"]
    /\ Step(c, "lookup", {"upgraded"})
    /\ UNCHANGED <<tleaf, dials, cacheVars, fixedVars>>

CacheNext ==
    \E c \in Conn :
        \/ StartCall(c)
        \/ CacheLookup(c)
        \/ CacheBody(c)
        \/ CacheMemo(c)
        \/ Sign(c)
        \/ CacheInsert(c)

SpecCache == CacheInit /\ [][CacheNext]_vars

---------------------------------------------------------------------------
(* The claims *)

Handled(c) == req[c] # NoReq
IsConnect(c) == Handled(c) /\ req[c].method = "CONNECT"
HasAuthority(c) == Handled(c) /\ req[c].uri.authority # NoAuthority
DialsOf(c) == {d \in dials : d.conn = c}

\* C1: a CONNECT whose URI has an authority is answered 200 with an empty
\* body in the very step that spawns its tunnel task, before the task has
\* upgraded, fetched a leaf, accepted TLS or dialed; and whatever the task
\* does afterwards, failures included, the reply stays what it was.
C1_ConnectReplyIs200AndStays ==
    [][\A c \in Conn :
          /\ (hpc[c] = "idle" /\ req'[c] # NoReq /\ req'[c].method = "CONNECT"
                /\ req'[c].uri.authority # NoAuthority)
             => /\ resp'[c] = Response(200, "")
                /\ tpc'[c] = "upgrade"
                /\ tdid'[c] = {} /\ tleaf'[c] = NoLeaf
                /\ dials' = dials /\ cache' = cache /\ minted' = minted
          /\ (IsConnect(c) /\ HasAuthority(c))
             => /\ resp[c] = Response(200, "")
                /\ resp'[c] = resp[c]
                /\ tpc[c] # "none"
      ]_vars

\* Two tunnel tasks have failed, one at the upgrade and one later, and both
\* CONNECTs still have their 200 reply.
C1_Witness ==
    \E c, d \in Conn :
        /\ IsConnect(c) /\ HasAuthority(c) /\ "upgrade error" \in tdid[c]
        /\ IsConnect(d) /\ HasAuthority(d) /\ "server io error" \in tdid[d]
        /\ "upgraded" \in tdid[d]
        /\ resp[c] = Response(200, "") /\ resp[d] = Response(200, "")

InRaw(c) == tpc[c] = "raw_connect" \/ "direct_tunnel" \in tdid[c]
InIntercept(c) == tpc[c] = "lookup" \/ "get_signed_cert" \in tdid[c]

\* C2: an upgraded tunnel is in exactly one branch, chosen by is_proxy(host)
\* alone.  A task in RAW_COPY (direct_tunnel) has a non-proxied host, never
\* called get_signed_cert, holds no leaf, attempted no TLS accept and dialed
\* over plain TCP only; a task that called get_signed_cert has a proxied
\* host, never entered direct_tunnel and made no plain dial, attempts the
\* TLS accept only with the leaf of its host, and has attempted it once it
\* has ended with the leaf obtained.
C2_PolicyDispatch ==
    \A c \in Conn :
        /\ (InRaw(c) \/ InIntercept(c)) => "upgraded" \in tdid[c]
        /\ "upgraded" \in tdid[c] =>
              /\ InRaw(c) # InIntercept(c)
              /\ InRaw(c) <=> ~is_proxy(config.proxy_hosts, THost(c))
        /\ InRaw(c) =>
              /\ tdid[c] \cap {"get_signed_cert", "hit", "minted", "inserted",
                               "tls_accept", "accepted"} = {}
              /\ tleaf[c] = NoLeaf
              /\ \A d \in DialsOf(c) : ~d.tls /\ d.addr = TAddr(c)
        /\ InIntercept(c) =>
              /\ tdid[c] \cap {"direct_tunnel", "raw_copy"} = {}
              /\ \A d \in DialsOf(c) : d.tls
              /\ "tls_accept" \in tdid[c] =>
                    tleaf[c] # NoLeaf /\ tleaf[c].cert.san = THost(c)
              /\ (tpc[c] \in {"done", "panicked"} /\ tleaf[c] # NoLeaf)
                    => "tls_accept" \in tdid[c]

\* One tunnel copies raw bytes to a non-proxied host while another, to a
\* proxied host, has accepted TLS with its leaf.
C2_Witness ==
    \E c, d \in Conn :
        /\ "raw_copy" \in tdid[c] /\ ~is_proxy(config.proxy_hosts, THost(c))
        /\ "accepted" \in tdid[d] /\ is_proxy(config.proxy_hosts, THost(d))
        /\ "minted" \in tdid[d]

\* s is a suffix of h: h is some prefix followed by s
IsSuffixOf(s, h) == \E n \in 0..Len(h) : h = SubSeq(h, 1, n) \o s

\* C3: with an empty proxied-hosts list is_proxy(H) is true; with a
\* non-empty list it is true exactly when some element of the list is a
\* suffix of H.
C3_IsProxyIsSuffixMatch ==
    pol.pc = "is_proxy" =>
        IF pol.proxy_hosts = <<>>
        THEN pol.proxied
        ELSE pol.proxied <=>
                \E i \in 1..Len(pol.proxy_hosts) :
                    IsSuffixOf(pol.proxy_hosts[i], pol.host)

\* is_proxy answered true for a two-letter host whose list holds a
\* non-matching entry and then its last letter.
C3_Witness ==
    /\ pol.pc = "is_proxy" /\ pol.proxied
    /\ pol.host = <<98, 97>>
    /\ pol.proxy_hosts = <<<<98>>, <<97>>>>

ExpectedSni(h) == IF config.sni # <<>> THEN config.sni ELSE h

\* C4: get_sni(H) is the configured SNI override when that is non-empty and
\* H otherwise, and every upstream TLS dial of an intercepted tunnel, in
\* bridge-copy and in parse mode, presents get_sni(host of the CONNECT).
C4_SniIsOverrideOrHost ==
    /\ \A h \in ReqHosts : get_sni(config.sni, h) = ExpectedSni(h)
    /\ \A d \in dials :
          d.tls => /\ d.sni = get_sni(config.sni, THost(d.conn))
                   /\ d.addr = TAddr(d.conn)

\* With an SNI override configured, one session in parse mode has dialed the
\* origin for an inner request, presenting the override and not the host.
C4_Witness ==
    \E d \in dials :
        /\ d.tls /\ config.parse /\ config.sni # <<>>
        /\ d.sni = config.sni /\ d.sni # THost(d.conn)
        /\ "serve" \in tdid[d.conn]

\* C5: whatever the interleaving of concurrent get_signed_cert calls, the
\* leaf cache never holds more than 50 entries.
C5_CacheAtMost50 == Len(cache) <= SIGNED_CA_SIZE

\* The cache is full, an entry of the warm-up has been evicted for a new
\* host and another call is between its lookup and its insert.
C5_Witness ==
    /\ Len(cache) = SIGNED_CA_SIZE
    /\ cache_keys(cache) \cap {<<97>>, <<98>>} # {}
    /\ \E i \in 1..SIGNED_CA_SIZE : WarmHost(i) \notin cache_keys(cache)
    /\ \E c \in Conn : tpc[c] \in {"body", "sign", "insert"}

\* C6: while the get_signed_cert calls made so far, one after the other, are
\* for at most 50 distinct hosts, the cache holds exactly one entry per host
\* asked for, and any two calls for the same host returned certificates with
\* the same serial number.
C6_OneEntryAndOneSerialPerHost ==
    (sq.pc = "ready" /\ Cardinality(sq.called) <= SIGNED_CA_SIZE) =>
        /\ Len(cache) = Cardinality(sq.called)
        /\ cache_keys(cache) = sq.called
        /\ \A r1, r2 \in sq.returned :
              r1.host = r2.host => r1.ca.cert.serial = r2.ca.cert.serial

\* Exactly 50 distinct hosts have been asked for, the last call was a hit
\* for a host first minted by an earlier call, and the cache holds 50.
C6_Witness ==
    /\ sq.pc = "ready" /\ sq.n >= 2 /\ sq.hit
    /\ sq.host = <<97>>
    /\ Cardinality(sq.called) = SIGNED_CA_SIZE
    /\ Len(cache) = SIGNED_CA_SIZE

\* the cached host whose last use (successful lookup or insert) is oldest
LeastRecentlyUsed(c, last_use) ==
    CHOOSE k \in cache_keys(c) :
        \A j \in cache_keys(c) : last_use[k] <= last_use[j]

CacheVal(c, k) == c[cache_index(c, k)].val

\* C7: a get_signed_cert call for a host not in a cache of 50 entries evicts
\* exactly one entry, the least recently used one (a successful lookup and
\* an insert both being uses), inserts the new host and every other entry
\* stays as it was; the size remains 50.
C7_FullCacheEvictsLeastRecentlyUsed ==
    [][(sq.pc = "ready" /\ sq'.n = sq.n + 1
          /\ Len(cache) = SIGNED_CA_SIZE
          /\ sq'.host \notin cache_keys(cache))
       => LET victim == LeastRecentlyUsed(cache, sq.last_use)
          IN  /\ Len(cache') = SIGNED_CA_SIZE
              /\ cache_keys(cache') =
                    (cache_keys(cache) \ {victim}) \cup {sq'.host}
              /\ \A k \in cache_keys(cache) \ {victim} :
                    CacheVal(cache', k) = CacheVal(cache, k)
              /\ CacheVal(cache', sq'.host).cert.serial = minted'
              /\ minted' = minted + 1
      ]_vars

\* A miss on a full cache has evicted WarmHost(2): WarmHost(1), the oldest
\* insert, was looked up in between and is still cached.
C7_Witness ==
    /\ sq.pc = "ready" /\ ~sq.hit /\ sq.n >= 2
    /\ Len(cache) = SIGNED_CA_SIZE
    /\ sq.host \in cache_keys(cache)
    /\ WarmHost(1) \in cache_keys(cache)
    /\ WarmHost(2) \notin cache_keys(cache)
    /\ WarmHost(2) \in sq.called

\* C8: every leaf returned for a host H, freshly minted or served from the
\* cache, has the root's subject as issuer, H as subject CN and as SAN DNS
\* name, and is signed with the root's private key, so root.issued(leaf)
\* is OK.
C8_EveryLeafIsIssuedByRoot ==
    sq.pc = "ready" =>
        \A r \in sq.returned :
            /\ r.ca.cert.issuer = root_ca.cert.subject
            /\ r.ca.cert.subject.CN = r.host
            /\ r.ca.cert.san = r.host
            /\ r.ca.cert.signed_by = root_ca.key
            /\ issued(root_ca.cert, r.ca.cert)

\* A leaf minted for "b" by one call has been returned again, from the
\* cache, by a later call.
C8_Witness ==
    /\ sq.pc = "ready" /\ sq.hit /\ sq.host = <<98>>
    /\ \E r \in sq.returned :
          r.host = <<98>> /\ r.ca.cert.serial = minted /\ sq.n >= 2

\* C9: a CONNECT whose URI has no authority is answered 400, and for it no
\* tunnel task is spawned, no leaf is minted and no upstream is dialed.
C9_ConnectWithoutAuthorityIs400 ==
    \A c \in Conn :
        (IsConnect(c) /\ ~HasAuthority(c)) =>
            /\ resp[c] = Response(400, "CONNECT must be to a socket address")
            /\ hpc[c] = "done"
            /\ tpc[c] = "none"
            /\ tdid[c] = {} /\ tleaf[c] = NoLeaf
            /\ DialsOf(c) = {}

\* A CONNECT without authority has its 400 while the tunnel of another
\* CONNECT has minted a leaf and dialed its origin.
C9_Witness ==
    \E c, d \in Conn :
        /\ IsConnect(c) /\ ~HasAuthority(c) /\ resp[c].status = 400
        /\ "minted" \in tdid[d] /\ DialsOf(d) # {}
        /\ minted = 1

\* C10: a non-CONNECT request whose URI has no host is answered 406 with the
\* body "HTTP must be to socket address", with no upstream dialed and
\* without the task handling it failing.
C10_PlainWithoutHostIs406 ==
    \A c \in Conn :
        (Handled(c) /\ ~IsConnect(c) /\ uri_host(req[c].uri) = NoHost) =>
            /\ resp[c] = Response(406, "HTTP must be to socket address")
            /\ hpc[c] # "panicked"
            /\ DialsOf(c) = {}

\* the dials of the forwarding client: the plain-HTTP path of proxy(), and
\* https_request inside a session served in parse mode
ForwardDials ==
    {d \in dials : (~d.tls /\ tpc[d.conn] = "none")
                   \/ (d.tls /\ "serve" \in tdid[d.conn])}

\* C11: whenever the forwarding client fails to dial the upstream, on the
\* plain-HTTP path and inside a tunnel served in parse mode alike, the call
\* returns a response with status 406 and body "connect http failed": the
\* failure is never raised as an error or a panic.
C11_DialFailureIs406 ==
    \A d \in ForwardDials :
        ~d.ok =>
            /\ hpc[d.conn] # "panicked"
            /\ tpc[d.conn] # "panicked"
            /\ ~d.tls => resp[d.conn] = Response(406, "connect http failed")

---------------------------------------------------------------------------
(* CA::load_or_create, run at each start of the process on the two CA      *)
(* files the last start (or the user) left.  boot.runs keeps, for each     *)
(* run, what it found, the branch it took and what it returned.            *)

MaxBoots == 4

NoFile == [none |-> TRUE]
\* a file whose bytes are no PEM block
NotPem == [label |-> "none", der |-> <<>>]
StartupError == [error |-> TRUE]

\* X509::to_pem and PKey::private_key_to_pem_pkcs8: the DER bytes in a
\* labelled PEM block
to_pem(cert) == [label |-> "CERTIFICATE", der |-> cert]
private_key_to_pem_pkcs8(key) == [label |-> "PRIVATE KEY", der |-> key]

\* X509::from_pem and PKey::private_key_from_pem: Ok for a block of the
\* right label only
pem_parses(bytes, label) == bytes.label = label

from_pem(bytes) == bytes.der
private_key_from_pem(bytes) == bytes.der

\* the files a successful run with root g leaves
FilesOf(g) == [cert |-> to_pem(mk_ca_cert(g).cert),
               key  |-> private_key_to_pem_pkcs8(mk_ca_cert(g).key)]

load_or_create_always_create(files, gens, mk_ok) ==
    IF mk_ok
    THEN [files |-> FilesOf(gens + 1), gens |-> gens + 1, branch |-> "create",
          on_pool |-> {"mk_ca_cert"}, result |-> mk_ca_cert(gens + 1)]
    ELSE [files |-> files, gens |-> gens, branch |-> "create",
          on_pool |-> {"mk_ca_cert"}, result |-> StartupError]

load_or_create_recreates_unparsed(files, gens, mk_ok) ==
    IF /\ files.cert # NoFile /\ files.key # NoFile
       /\ pem_parses(files.cert, "CERTIFICATE")
       /\ pem_parses(files.key, "PRIVATE KEY")
    THEN [files |-> files, gens |-> gens, branch |-> "load",
          on_pool |-> {"X509::from_pem", "PKey::private_key_from_pem"},
          result |-> [cert |-> from_pem(files.cert),
                      key  |-> private_key_from_pem(files.key)]]
    ELSE load_or_create_always_create(files, gens, mk_ok)

\* CA::load_or_create(cert_path, key_path) on the files `files`, the
\* program having generated `gens` roots so far; mk_ok: mk_ca_cert
\* succeeds.  on_pool: what the run hands to task::spawn_blocking.
load_or_create(files, gens, mk_ok) ==
    IF files.cert # NoFile /\ files.key # NoFile
    THEN [files |-> files, gens |-> gens, branch |-> "load",
          on_pool |-> {"X509::from_pem", "PKey::private_key_from_pem"},
          result |-> IF /\ pem_parses(files.cert, "CERTIFICATE")
                        /\ pem_parses(files.key, "PRIVATE KEY")
                     THEN [cert |-> from_pem(files.cert),
                           key  |-> private_key_from_pem(files.key)]
                     ELSE StartupError]
    ELSE IF mk_ok
         THEN LET ca == mk_ca_cert(gens + 1)
              IN  [files |-> [cert |-> to_pem(ca.cert),
                              key  |-> private_key_to_pem_pkcs8(ca.key)],
                   gens |-> gens + 1, branch |-> "create",
                   on_pool |-> {"mk_ca_cert"}, result |-> ca]
         ELSE [files |-> files, gens |-> gens, branch |-> "create",
               on_pool |-> {"mk_ca_cert"}, result |-> StartupError]

\* what may lie at a CA path before the first start
CertFiles == {NoFile, NotPem} \cup {FilesOf(g).cert : g \in RootGens}
KeyFiles == {NoFile, NotPem} \cup {FilesOf(g).key : g \in RootGens}

BootInit ==
    /\ config = DefaultConfig
    /\ root_ca = mk_ca_cert(1)
    /\ cache = <<>>
    /\ minted = 0
    /\ IdleConns
    /\ NoStreams
    /\ lock = FreeLock
    /\ main_pc = "startup"
    /\ pol = NoPol /\ sq = NoSq /\ cdc = NoCdc /\ lg = NoLg
    /\ \E cf \in CertFiles, kf \in KeyFiles :
          boot = [pc |-> "down", files |-> [cert |-> cf, key |-> kf],
                  gens |-> Cardinality(RootGens), runs |-> <<>>]

\* the process is started: State::new() runs load_or_create; on Err main
\* panics ("State init failed"), and the process may be started again
Startup ==
    /\ Len(boot.runs) < MaxBoots
    /\ \E mk_ok \in BOOLEAN :
          LET r == load_or_create(boot.files, boot.gens, mk_ok)
          IN  boot' = [pc    |-> IF r.result = StartupError THEN "failed" ELSE "up",
                       files |-> r.files,
                       gens  |-> r.gens,
                       runs  |-> Append(boot.runs,
                                    [found   |-> boot.files,
                                     branch  |-> r.branch,
                                     on_pool |-> r.on_pool,
                                     result  |-> r.result])]
    /\ UNCHANGED <<config, root_ca, cache, minted, connVars, procVars, ioVars,
                   pol, sq, cdc, lg>>

BootNext == Startup

SpecBoot == BootInit /\ [][BootNext]_vars

\* the runs of load_or_create that returned Ok
OkRuns == {i \in 1..Len(boot.runs) : boot.runs[i].result # StartupError}

---------------------------------------------------------------------------
(* RequestExt of codec.rs: encode parses the bytes of a request into a     *)
(* Request<Vec<u8>>, decode writes a Request<Vec<u8>> back as bytes.       *)

MaxHeaders == 2

SP == <<32>>
CRLF == <<13, 10>>
COLON_SP == <<58, 32>>
QUESTION == <<63>>
\* " HTTP/1.1"
HTTP11 == <<32, 72, 84, 84, 80, 47, 49, 46, 49>>
\* "content-length"
CONTENT_LENGTH == <<99, 111, 110, 116, 101, 110, 116, 45,
                    108, 101, 110, 103, 116, 104>>

Header(name, value) == [name |-> name, value |-> value]

\* the well-formed requests drawn: GET or POST, "/a" with or without the
\* query "b", headers named "x", "X" or "y" in any order, and a body of
\* no byte or of one byte, announced by a content-length header
CodecMethods == {<<71, 69, 84>>, <<80, 79, 83, 84>>}
CodecQueries == {<<>>, <<98>>}
CodecHeaders == {Header(n, <<49>>) : n \in {<<120>>, <<88>>, <<121>>}}
CodecBodies == {<<>>, <<122>>}

RECURSIVE HeaderLists(_)
HeaderLists(n) ==
    IF n = 0 THEN {<<>>}
    ELSE HeaderLists(n - 1) \cup
         {Append(l, h) : l \in {k \in HeaderLists(n - 1) : Len(k) = n - 1},
                         h \in CodecHeaders}

WellFormed ==
    {[method |-> m, path |-> <<47, 97>>, query |-> q,
      headers |-> IF b = <<>> THEN hs
                  ELSE Append(hs, Header(CONTENT_LENGTH, <<48 + Len(b)>>)),
      body |-> b] :
        m \in CodecMethods, q \in CodecQueries,
        hs \in HeaderLists(MaxHeaders), b \in CodecBodies}

\* the request target as written on the request line
target(w) == IF w.query = <<>> THEN w.path ELSE w.path \o QUESTION \o w.query

RECURSIVE header_lines(_)
\* "name: value\r\n" for each header in turn
header_lines(hs) ==
    IF hs = <<>> THEN <<>>
    ELSE hs[1].name \o COLON_SP \o hs[1].value \o CRLF \o header_lines(Tail(hs))

\* the bytes of the request w as a client sends it
wire(w) ==
    w.method \o SP \o target(w) \o HTTP11 \o CRLF
        \o header_lines(w.headers) \o CRLF \o w.body

\* HeaderName::from_bytes: header names are kept in lower case
to_lower(name) ==
    [i \in 1..Len(name) |->
        IF name[i] >= 65 /\ name[i] <= 90 THEN name[i] + 32 ELSE name[i]]

RECURSIVE header_map(_, _)
\* Request::builder().header(name, value) for each parsed header in turn:
\* a HeaderMap keeps one entry per name, in the order the names first came,
\* each with its values in the order they came
header_map(map, hs) ==
    IF hs = <<>> THEN map
    ELSE LET name == to_lower(hs[1].name)
             at   == {i \in 1..Len(map) : map[i].name = name}
         IN  header_map(
                 IF at = {}
                 THEN Append(map, [name |-> name, values |-> <<hs[1].value>>])
                 ELSE [i \in 1..Len(map) |->
                         IF i \in at
                         THEN [map[i] EXCEPT !.values = Append(@, hs[1].value)]
                         ELSE map[i]],
                 Tail(hs))

RECURSIVE atoi(_)
\* atoi::<usize>: the number a string of digits spells
atoi(digits) ==
    IF digits = <<>> THEN 0
    ELSE atoi(SubSeq(digits, 1, Len(digits) - 1)) * 10
         + (digits[Len(digits)] - 48)

\* r.headers().get(CONTENT_LENGTH) as a number, 0 when absent
content_length(map) ==
    LET at == {i \in 1..Len(map) : map[i].name = CONTENT_LENGTH}
    IN  IF at = {} THEN 0
        ELSE atoi(map[CHOOSE i \in at : TRUE].values[1])

\* RequestExt::encode on wire(w): httparse yields the method, the request
\* target and the headers as written; the Request is built from them with
\* .method(), .uri() and .header(), and the body is the content-length
\* bytes after the head
encode(w) ==
    LET map == header_map(<<>>, w.headers)
        cl  == content_length(map)
    IN  [method  |-> w.method,
         uri     |-> [path |-> w.path, query |-> w.query],
         headers |-> map,
         body    |-> SubSeq(w.body, 1, cl)]

RECURSIVE map_lines(_)
\* for (k, v) in self.headers(): k ": " v "\r\n"
map_lines(map) ==
    IF map = <<>> THEN <<>>
    ELSE header_lines([i \in 1..Len(map[1].values) |->
                          Header(map[1].name, map[1].values[i])])
         \o map_lines(Tail(map))

\* RequestExt::decode: method, " ", uri().path(), " HTTP/1.1\r\n", the
\* headers, "\r\n", the body
decode(r) ==
    r.method \o SP \o r.uri.path \o HTTP11 \o CRLF
        \o map_lines(r.headers) \o CRLF \o r.body

CodecInit ==
    /\ config = DefaultConfig
    /\ root_ca = mk_ca_cert(1)
    /\ cache = <<>>
    /\ minted = 0
    /\ IdleConns
    /\ NoStreams
    /\ Running
    /\ pol = NoPol /\ sq = NoSq /\ boot = NoBoot /\ lg = NoLg
    /\ \E w \in WellFormed :
          cdc = [pc |-> "bytes", src |-> wire(w), parsed |-> w,
                 req |-> <<>>, out |-> <<>>]

\* Request::encode(&mut src.to_vec())
Encode ==
    /\ cdc.pc = "bytes"
    /\ cdc' = [cdc EXCEPT !.pc = "encoded", !.req = encode(cdc.parsed)]
    /\ UNCHANGED <<config, root_ca, cache, minted, connVars, procVars, ioVars,
                   pol, sq, boot, lg>>

\* req.decode()
Decode ==
    /\ cdc.pc = "encoded"
    /\ cdc' = [cdc EXCEPT !.pc = "decoded", !.out = decode(cdc.req)]
    /\ UNCHANGED <<config, root_ca, cache, minted, connVars, procVars, ioVars,
                   pol, sq, boot, lg>>

CodecNext == Encode \/ Decode

SpecCodec == CodecInit /\ [][CodecNext]_vars

\* C13: for every well-formed HTTP/1.1 request serialized as bytes B (any
\* method, a target with or without a query, header names in any letter
\* case and any order, repeated names included, a body as long as
\* Content-Length says), decode(encode(B)) is byte-equal to B.
C13_RoundTripIsByteEqual ==
    cdc.pc = "decoded" => cdc.out = cdc.src

---------------------------------------------------------------------------

\* everything the program keeps for connection c
ConnState(c) ==
    <<req[c], resp[c], hpc[c], tpc[c], tleaf[c], tdid[c], DialsOf(c)>>

\* connection c has work left: its handler or its tunnel task is at a step
Active(c) ==
    \/ hpc[c] \in {"connect", "send"}
    \/ tpc[c] \notin {"none", "done", "panicked"}

\* the next step of connection c, whichever it is
Progress(c) ==
    \/ PlainConnect(c) \/ PlainSend(c) \/ Upgrade(c) \/ CacheLookup(c)
    \/ CacheBody(c) \/ CacheMemo(c) \/ Sign(c) \/ CacheInsert(c)
    \/ TlsAccept(c) \/ BridgeConnect(c) \/ BridgeCopy(c) \/ InnerConnect(c)
    \/ InnerSend(c) \/ ServeClose(c) \/ RawConnect(c) \/ RawCopy(c)

\* C14: once the process is up, whatever happens on a connection (a URI
\* without host, a failed dial, a failed TLS handshake, a failed mint, an
\* upgrade error, an accept error), the accept loop stays in place and can
\* accept the next connection, every other connection can take its next
\* step, and the step on which one connection fails changes nothing of any
\* other connection.
C14_FailuresStayOnTheirConnection ==
    /\ [](main_pc = "accepting")
    /\ [](\A c \in Conn :
            /\ (hpc[c] = "idle" /\ \A d \in 1..(c - 1) : hpc[d] # "idle")
               => ENABLED Proxy(c)
            /\ Active(c) => ENABLED Progress(c))
    /\ [][\A c \in Conn :
            ConnState(c)' # ConnState(c)
            => \A d \in Conn \ {c} : ConnState(d)' = ConnState(d)]_vars

\* The first accept failed or its handler panicked on a URI without host,
\* the tunnel of the next connection has failed too, and a connection
\* accepted after both has been served the origin's response.
C14_Witness ==
    \E c, d \in Conn :
        /\ c < d
        /\ \/ hpc[c] \in {"accept error", "panicked"}
           \/ tpc[c] = "panicked"
           \/ "server io error" \in tdid[c]
        /\ hpc[d] = "done" /\ resp[d] = OriginResponse

\* the context transform_tunnel forwards with: the CONNECT's authority, the
\* chosen SNI, over TLS
ForwardsWithContext(c, d) ==
    /\ d.addr = TAddr(c)
    /\ d.sni = get_sni(config.sni, THost(c))
    /\ d.tls

\* C15: after a successful TLS accept on an intercepted tunnel the parse
\* flag alone chooses the mode.  With parse = false the task dials the
\* origin once, over TLS, and copies bytes blindly: it serves no HTTP and
\* forwards no request.  With parse = true it serves HTTP/1.1 on the
\* accepted stream and forwards every inner request to the CONNECT's
\* authority with the chosen SNI over TLS.  A tunnel is never in both modes
\* and never changes mode.
C15_ParseFlagChoosesTheMode ==
    /\ [](\A c \in Conn :
            "accepted" \in tdid[c] =>
                IF config.parse
                THEN /\ "serve" \in tdid[c]
                     /\ tdid[c] \cap {"bridge_dial", "bridge_copy"} = {}
                     /\ tpc[c] \in {"serving", "inner_send", "done", "panicked"}
                     /\ \A d \in DialsOf(c) : ForwardsWithContext(c, d)
                ELSE /\ tdid[c] \cap {"serve", "inner response"} = {}
                     /\ tpc[c] \in {"bridge_connect", "bridge_copy", "done"}
                     /\ IF "bridge_dial" \in tdid[c]
                        THEN /\ tpc[c] # "bridge_connect"
                             /\ Cardinality(DialsOf(c)) = 1
                             /\ \A d \in DialsOf(c) : ForwardsWithContext(c, d)
                        ELSE /\ tpc[c] = "bridge_connect"
                             /\ DialsOf(c) = {})
    /\ [][\A c \in Conn :
            "accepted" \in tdid[c] =>
                /\ ("serve" \in tdid'[c]) <=> ("serve" \in tdid[c])
                /\ ("bridge_dial" \in tdid[c]) => DialsOf(c)' = DialsOf(c)
                /\ tpc'[c] = "bridge_connect" => tpc[c] = "bridge_connect"
                /\ (tpc'[c] = "bridge_copy" /\ tpc[c] # "bridge_copy")
                   => tpc[c] = "bridge_connect"]_vars

\* In parse mode a session has had one inner request answered and is
\* forwarding the next, both dialed with the tunnel's context.
C15_Witness ==
    \E c \in Conn :
        /\ config.parse /\ config.sni # <<>>
        /\ "inner response" \in tdid[c]
        /\ tpc[c] = "inner_send"
        /\ \E d \in DialsOf(c) : d.ok /\ ForwardsWithContext(c, d)

\* C16: every CPU-heavy operation runs on the blocking worker pool and
\* never inline on a task of the async runtime; in particular the leaf
\* mint that a cache miss of get_signed_cert triggers while a CONNECT is
\* handled does not run on the connection's async task.
C16_MintRunsOnBlockingPool ==
    \A c \in Conn :
        tdid[c] \cap {"minted", "sign error"} # {}
            => /\ "sign on blocking pool" \in tdid[c]
               /\ "sign on async task" \notin tdid[c]

\* C19, as claimed: when minting the leaf for a proxied CONNECT host
\* fails, the error is logged and returned to the caller, and the client is
\* answered 406.
C19_MintFailureIs406 ==
    \A c \in Conn :
        "sign error" \in tdid[c]
            => /\ "server io error" \in tdid[c]
               /\ tleaf[c] = NoLeaf
               /\ resp[c].status = 406

\* C19: when minting the leaf for a proxied CONNECT host fails, the error
\* is returned to the tunnel task, which logs it and ends: it holds no
\* leaf, attempts no TLS accept and dials nothing, nothing is cached for
\* the host by it, and the client keeps the 200 its CONNECT was answered
\* with; no 406 is sent.
C19_MintFailureEndsTheTunnel ==
    \A c \in Conn :
        "sign error" \in tdid[c]
            => /\ "server io error" \in tdid[c]
               /\ tpc[c] = "done"
               /\ tleaf[c] = NoLeaf
               /\ tdid[c] \cap {"minted", "inserted", "tls_accept"} = {}
               /\ DialsOf(c) = {}
               /\ resp[c] = Response(200, "")

\* The mint for one tunnel has failed while the tunnel of another CONNECT
\* for the same host minted its leaf and accepted TLS.
C19_Witness ==
    \E c, d \in Conn :
        /\ "sign error" \in tdid[c] /\ tpc[c] = "done"
        /\ "minted" \in tdid[d] /\ "accepted" \in tdid[d]
        /\ THost(d) = THost(c)

\* the stretches of get_signed_cert that lock SIGNED_CA, for connection c
LockSection(c) ==
    CacheLookup(c) \/ CacheBody(c) \/ CacheMemo(c) \/ CacheInsert(c)

\* C17: the lock of the leaf cache is held by no task while a leaf is
\* being signed nor while a task is suspended on I/O: each guard is dropped
\* within the stretch that took it, before root_ca.sign starts, and the
\* lock is taken again only for the insert; so a task about to look up or
\* insert is never kept waiting by a mint in progress for another host.
C17_LockNotHeldAcrossSignOrIo ==
    /\ lock.holder = NoHolder
    /\ \A c \in Conn :
          tpc[c] \in {"lookup", "body", "memo", "insert"}
             => ENABLED LockSection(c)

\* One task is signing the leaf of its host while another, for another
\* host, has signed its own and is about to insert it.
C17_Witness ==
    \E c, d \in Conn :
        /\ tpc[c] = "sign" /\ tpc[d] = "insert"
        /\ THost(c) # THost(d)
        /\ lock.holder = NoHolder

---------------------------------------------------------------------------
(* Log::call of layer/log.rs around an inner service.  The inner service   *)
(* is a forwarding client as client.rs has it: it answers Ok(response) or  *)
(* Err(hyper::Error).                                                      *)

Ok(v) == [ok |-> TRUE, val |-> v]
Err(e) == [ok |-> FALSE, val |-> e]

\* https_request / http_request of client.rs by how the exchange goes
InnerOutcomes == {"dial failed", "handshake failed", "send failed", "answered"}

https_request(outcome) ==
    CASE outcome = "dial failed" -> Ok(Response(406, "connect https failed"))
      [] outcome = "handshake failed" -> Err("handshake")
      [] outcome = "send failed" -> Err("send_request")
      [] OTHER -> Ok(OriginResponse)

\* if state.parse { info!(..) }
traced_always(parse) == TRUE

traced(parse) == parse

LogInit ==
    /\ config = DefaultConfig
    /\ root_ca = mk_ca_cert(1)
    /\ cache = <<>>
    /\ minted = 0
    /\ IdleConns
    /\ NoStreams
    /\ Running
    /\ pol = NoPol /\ sq = NoSq /\ boot = NoBoot /\ cdc = NoCdc
    /\ \E p \in BOOLEAN, r \in Requests, o \in InnerOutcomes :
          lg = [pc |-> "called", parse |-> p, req |-> r, outcome |-> o,
                inner_got |-> <<>>, result |-> Err("none"),
                trace |-> <<>>, out |-> Err("none")]

\* Log::call up to the inner call
LogBefore ==
    /\ lg.pc = "called"
    /\ lg' = [lg EXCEPT
                !.pc = "inner",
                !.trace = IF traced(lg.parse)
                          THEN Append(@, [kind |-> "request", of |-> lg.req])
                          ELSE @]
    /\ UNCHANGED <<config, root_ca, cache, minted, connVars, procVars, ioVars,
                   pol, sq, boot, cdc>>

\* self.inner.call(state, req).await
InnerCall ==
    /\ lg.pc = "inner"
    /\ lg' = [lg EXCEPT
                !.pc = "after",
                !.inner_got = Append(@, lg.req),
                !.result = https_request(lg.outcome)]
    /\ UNCHANGED <<config, root_ca, cache, minted, connVars, procVars, ioVars,
                   pol, sq, boot, cdc>>

\* Log::call after the inner call: the trace, then resp is returned
LogAfter ==
    /\ lg.pc = "after"
    /\ lg' = [lg EXCEPT
                !.pc = "returned",
                !.trace = IF traced(lg.parse)
                          THEN Append(@, [kind |-> "response", of |-> lg.result])
                          ELSE @,
                !.out = lg.result]
    /\ UNCHANGED <<config, root_ca, cache, minted, connVars, procVars, ioVars,
                   pol, sq, boot, cdc>>

LogNext == LogBefore \/ InnerCall \/ LogAfter

SpecLog == LogInit /\ [][LogNext]_vars

\* C18: the logging middleware hands the inner service exactly the request
\* it was given, once, and returns exactly the inner service's result, an
\* error included; with the parse flag true it traces the request before
\* the inner call and the response after it, and with the flag false it
\* traces nothing.
C18_LogIsTransparent ==
    LET req_trace  == [kind |-> "request", of |-> lg.req]
        resp_trace == [kind |-> "response", of |-> https_request(lg.outcome)]
    IN  /\ lg.pc = "called" => lg.trace = <<>> /\ lg.inner_got = <<>>
        /\ lg.pc = "inner" =>
              /\ lg.inner_got = <<>>
              /\ lg.trace = IF lg.parse THEN <<req_trace>> ELSE <<>>
        /\ lg.pc = "after" =>
              /\ lg.inner_got = <<lg.req>>
              /\ lg.trace = IF lg.parse THEN <<req_trace>> ELSE <<>>
        /\ lg.pc = "returned" =>
              /\ lg.inner_got = <<lg.req>>
              /\ lg.out = https_request(lg.outcome)
              /\ lg.trace = IF lg.parse THEN <<req_trace, resp_trace>> ELSE <<>>

\* With the flag false the middleware has returned the inner service's
\* error and traced nothing.
C18_Witness ==
    /\ lg.pc = "returned" /\ ~lg.parse
    /\ ~lg.out.ok /\ lg.out = Err("send_request")
    /\ lg.trace = <<>>

---------------------------------------------------------------------------
(* The leaf cache's Mutex poisoned.  Nothing the program does under the    *)
(* lock panics by itself; HolderFails is the fault of a holder failing     *)
(* while it holds the guard of the insert: std::sync::Mutex is poisoned    *)
(* from then on.  The other actions are those of the concurrent            *)
(* get_signed_cert calls.                                                  *)

\* a task panics between SIGNED_CA.lock() and the end of cache_set
HolderFails(c) ==
    /\ tpc[c] = "insert"
    /\ CanLock(c)
    /\ ~lock.poisoned
    /\ lock' = [lock EXCEPT !.poisoned = TRUE]
    /\ Step(c, "panicked", {"holder failed"})
    /\ UNCHANGED <<req, resp, hpc, tleaf, dials, cache, minted, fixedVars>>

PoisonNext == CacheNext \/ \E c \in Conn : HolderFails(c)

SpecPoison == CacheInit /\ [][PoisonNext]_vars

\* C20: a get_signed_cert call that meets the poisoned lock of the leaf
\* cache returns an error value, which fails that request only: the call
\* does not panic.
C20_PoisonedLockIsAnErrorValue ==
    \A c \in Conn :
        "lock poisoned" \in tdid[c]
            => /\ tpc[c] # "panicked"
               /\ tpc[c] = "done" => "server io error" \in tdid[c]
               /\ tpc[c] # "tls_accept"

---------------------------------------------------------------------------

\* the places of host k in the cache c
EntriesFor(c, k) == {i \in 1..Len(c) : c[i].key = k}

\* the get_signed_cert call of connection c has returned its leaf
Returned(c) ==
    /\ tleaf[c] # NoLeaf
    /\ tpc[c] \notin {"lookup", "body", "memo", "sign", "insert", "panicked"}

\* this step is a cache_set of connection c: the insert after its mint, or
\* the macro's store of the leaf its second lookup found
WritesCache(c) ==
    /\ tpc[c] \in {"insert", "memo"}
    /\ tpc'[c] = "tls_accept"

\* C21: get_signed_cert calls for the same host that is not cached yet may
\* interleave, all miss and all mint.  Every leaf a call holds or returns
\* is for its host and validates against the root; every cache_set of a
\* call leaves exactly one entry for its host, the leaf of that call, and
\* between two cache_sets for a host its entry keeps its leaf: the later
\* writer wins.  Once two calls for a host have returned, the cache holds
\* exactly one entry for the host, the leaf of one of the calls.
C21_LaterWriterWins ==
    /\ [](\A c \in Conn :
            tleaf[c] # NoLeaf =>
                /\ tleaf[c].cert.san = THost(c)
                /\ tleaf[c].cert.signed_by = root_ca.key
                /\ issued(root_ca.cert, tleaf[c].cert))
    /\ [](\A c \in Conn : \A d \in Conn \ {c} :
            (Returned(c) /\ Returned(d) /\ THost(c) = THost(d)) =>
                /\ Cardinality(EntriesFor(cache, THost(c))) = 1
                /\ \E e \in Conn :
                      /\ Handled(e) /\ THost(e) = THost(c) /\ Returned(e)
                      /\ CacheVal(cache, THost(c)) = tleaf[e])
    /\ [][/\ \A c \in Conn :
               WritesCache(c) =>
                   /\ Cardinality(EntriesFor(cache', THost(c))) = 1
                   /\ CacheVal(cache', THost(c)) = tleaf[c]
          /\ \A h \in cache_keys(cache) \cap cache_keys(cache') :
               CacheVal(cache', h) # CacheVal(cache, h) =>
                   \E c \in Conn : WritesCache(c) /\ THost(c) = h
         ]_vars

\* Two calls for "a" both missed and both minted; the call that minted
\* first inserted last, and the cache holds its leaf, the one with the
\* smaller serial number.
C21_Witness ==
    \E c \in Conn : \E d \in Conn \ {c} :
        /\ {"minted", "inserted"} \subseteq tdid[c]
        /\ {"minted", "inserted"} \subseteq tdid[d]
        /\ THost(c) = <<97>> /\ THost(d) = <<97>>
        /\ tleaf[d].cert.serial < tleaf[c].cert.serial
        /\ Cardinality(EntriesFor(cache, <<97>>)) = 1
        /\ CacheVal(cache, <<97>>) = tleaf[d]

\* this step is one of connection c's call, up to its return, and the call
\* has found its host in the cache
StepOfHit(c) ==
    /\ tpc[c] \in {"lookup", "body", "memo"}
    /\ tpc'[c] # tpc[c]
    /\ "hit" \in tdid'[c]

\* C22: a get_signed_cert call whose lookup finds its host in the cache
\* returns a copy of the cached leaf and does not call root_ca.sign, and no
\* step of it, from the lookup to its return, changes the set of cached
\* hosts or the leaf stored for any host.
C22_HitLeavesTheCacheAsItWas ==
    /\ [](\A c \in Conn :
            "hit" \in tdid[c] =>
                tdid[c] \cap {"minted", "sign error", "inserted"} = {})
    /\ [][\A c \in Conn :
            StepOfHit(c) =>
                /\ tleaf'[c] = CacheVal(cache, THost(c))
                /\ minted' = minted
                /\ cache_keys(cache') = cache_keys(cache)
                /\ Len(cache') = Len(cache)
                /\ \A h \in cache_keys(cache) :
                      CacheVal(cache', h) = CacheVal(cache, h)
         ]_vars

---------------------------------------------------------------------------
(* load_or_create with a read that fails.  ReadFails is the fault of       *)
(* read_to_end returning an error on a file that opened; the other action  *)
(* is the startup of the fault-free runs.                                  *)

\* load_or_create: both files open, tokio::try_join!(read_to_end,
\* read_to_end)? fails: the error is returned before anything is parsed
ReadFails ==
    /\ Len(boot.runs) < MaxBoots
    /\ boot.files.cert # NoFile /\ boot.files.key # NoFile
    /\ boot' = [boot EXCEPT
                  !.pc = "failed",
                  !.runs = Append(@, [found   |-> boot.files,
                                      branch  |-> "load",
                                      on_pool |-> {},
                                      result  |-> StartupError])]
    /\ UNCHANGED <<config, root_ca, cache, minted, connVars, procVars, ioVars,
                   pol, sq, cdc, lg>>

BootFaultNext == Startup \/ ReadFails

SpecBootFault == BootInit /\ [][BootFaultNext]_vars

\* both CA files opened
BothOpen(files) == files.cert # NoFile /\ files.key # NoFile

\* the run read both files and both parsed
BothParse(run) ==
    /\ run.on_pool # {}
    /\ pem_parses(run.found.cert, "CERTIFICATE")
    /\ pem_parses(run.found.key, "PRIVATE KEY")

---------------------------------------------------------------------------
(* RequestExt::encode on a buffer the bytes of requests arrive in: the     *)
(* write buffer of a stream.  cdc keeps the requests the bytes are of      *)
(* (src), the bytes not yet arrived (pending), the buffer (buf), the       *)
(* requests encode has returned (got) and what its last call returned.     *)

MaxRequests == 2        \* requests whose bytes arrive one after the other

\* Some(r) is r itself
None == [none |-> TRUE]

\* the place of the first pat in s, 0 when s holds none
index_of(s, pat) ==
    LET at == {i \in 1..(Len(s) - Len(pat) + 1) :
                  SubSeq(s, i, i + Len(pat) - 1) = pat}
    IN  IF at = {} THEN 0 ELSE CHOOSE i \in at : \A j \in at : i <= j

RECURSIVE split(_, _)
\* the pieces of s between the occurrences of pat
split(s, pat) ==
    LET i == index_of(s, pat)
    IN  IF i = 0 THEN <<s>>
        ELSE <<SubSeq(s, 1, i - 1)>> \o split(SubSeq(s, i + Len(pat), Len(s)), pat)

RECURSIVE skip_sp(_)
skip_sp(s) == IF s # <<>> /\ s[1] = 32 THEN skip_sp(Tail(s)) ELSE s

\* httparse: a header line is its name, ":", optional spaces, its value
parse_header(line) ==
    LET c == index_of(line, <<58>>)
    IN  Header(SubSeq(line, 1, c - 1), skip_sp(SubSeq(line, c + 1, Len(line))))

\* httparse::Request::parse: Partial until the head's closing empty line
\* is there, then Complete(length of the head) with the method, the target
\* and the headers, or Err for a head that is no request
parse(buf) ==
    LET e == index_of(buf, CRLF \o CRLF)
    IN  IF e = 0 THEN [status |-> "Partial"]
        ELSE LET lines == split(SubSeq(buf, 1, e - 1), CRLF)
                 rl    == split(lines[1], SP)
                 hl    == Tail(lines)
             IN  IF \/ Len(rl) # 3
                    \/ rl[1] = <<>> \/ rl[2] = <<>>
                    \/ rl[Len(rl)] # Tail(HTTP11)
                    \/ \E i \in 1..Len(hl) : index_of(hl[i], <<58>>) < 2
                 THEN [status |-> "Err"]
                 ELSE [status  |-> "Complete",
                       len     |-> e + 3,
                       method  |-> rl[1],
                       path    |-> rl[2],
                       headers |-> [i \in 1..Len(hl) |-> parse_header(hl[i])]]

\* Request::builder().uri(target): the path and the query of the target
parse_uri(t) ==
    LET q == index_of(t, QUESTION)
    IN  IF q = 0 THEN [path |-> t, query |-> <<>>]
        ELSE [path |-> SubSeq(t, 1, q - 1), query |-> SubSeq(t, q + 1, Len(t))]

drain_clears(buf, n) == <<>>

\* buf after buf.drain(..n)
drain(buf, n) == SubSeq(buf, n + 1, Len(buf))

\* RequestExt::encode(buf): the request returned, or None, and the buffer
\* as the call leaves it
encode_buf(buf) ==
    LET st == parse(buf)
    IN  IF st.status # "Complete" THEN [req |-> None, buf |-> buf]
        ELSE LET map == header_map(<<>>, st.headers)
                 cl  == content_length(map)
                 r   == [method |-> st.method, uri |-> parse_uri(st.path),
                         headers |-> map, body |-> <<>>]
             IN  IF cl = 0
                 THEN [req |-> r, buf |-> drain(buf, st.len)]
                 ELSE IF Len(buf) >= st.len + cl
                 THEN [req |-> [r EXCEPT !.body =
                                   SubSeq(drain(buf, st.len), 1, cl)],
                       buf |-> drain(drain(buf, st.len), cl)]
                 ELSE [req |-> None, buf |-> buf]

\* the requests whose bytes arrive: GET or POST of "/a" or "/a?b", with or
\* without a header "x: 1", without a body or with the two-byte body "zz"
\* that a content-length header announces
BufBodies == {<<>>, <<122, 122>>}

BufRequests ==
    {[method |-> IF b = <<>> THEN <<71, 69, 84>> ELSE <<80, 79, 83, 84>>,
      path |-> <<47, 97>>, query |-> q,
      headers |-> hs \o (IF b = <<>> THEN <<>>
                         ELSE <<Header(CONTENT_LENGTH, <<48 + Len(b)>>)>>),
      body |-> b] :
        q \in CodecQueries, b \in BufBodies,
        hs \in {<<>>, <<Header(<<120>>, <<49>>)>>}}

RECURSIVE wire_all(_)
\* the bytes of the requests ws, one after the other
wire_all(ws) == IF ws = <<>> THEN <<>> ELSE wire(ws[1]) \o wire_all(Tail(ws))

BufInit ==
    /\ config = DefaultConfig
    /\ root_ca = mk_ca_cert(1)
    /\ cache = <<>>
    /\ minted = 0
    /\ IdleConns
    /\ NoStreams
    /\ Running
    /\ pol = NoPol /\ sq = NoSq /\ boot = NoBoot /\ lg = NoLg
    /\ \E ws \in ListsUpTo(BufRequests, MaxRequests) :
          cdc = [pc |-> "buffer", src |-> ws, pending |-> wire_all(ws),
                 buf |-> <<>>, got |-> <<>>, last |-> "-"]

\* the next n bytes are written to the buffer
Arrive(n) ==
    /\ cdc.pc = "buffer"
    /\ n >= 1 /\ n <= Len(cdc.pending)
    /\ cdc' = [cdc EXCEPT !.buf = @ \o SubSeq(cdc.pending, 1, n),
                          !.pending = drain(@, n),
                          !.last = "-"]
    /\ UNCHANGED <<config, root_ca, cache, minted, connVars, procVars, ioVars,
                   pol, sq, boot, lg>>

\* Request::encode(&mut buf)
EncodeBuf ==
    /\ cdc.pc = "buffer"
    /\ LET r == encode_buf(cdc.buf)
       IN  cdc' = [cdc EXCEPT
                     !.buf = r.buf,
                     !.got = IF r.req = None THEN @ ELSE Append(@, r.req),
                     !.last = IF r.req = None THEN "None" ELSE "Some"]
    /\ UNCHANGED <<config, root_ca, cache, minted, connVars, procVars, ioVars,
                   pol, sq, boot, lg>>

\* the bytes arrive one at a time, or all that is left at once
BufNext == EncodeBuf \/ \E n \in {1, Len(cdc.pending)} : Arrive(n)

SpecBuf == BufInit /\ [][BufNext]_vars

\* the buffer holds all bytes of the next request not returned yet
HoldsNext ==
    /\ Len(cdc.got) < Len(cdc.src)
    /\ Len(cdc.buf) >= Len(wire(cdc.src[Len(cdc.got) + 1]))

\* C24: encode returns None and leaves the buffer as it was while the
\* buffer does not hold a complete request (the head's closing empty line
\* is missing, or fewer body bytes than Content-Length says are there);
\* when it returns a request it has removed from the front exactly the
\* bytes of that request, head and body, and left the bytes after them in
\* place: the calls return the requests of the byte stream in order, and
\* the buffer followed by the bytes still to arrive is always the bytes of
\* the requests not returned yet.
C24_EncodeDrainsOneRequest ==
    cdc.pc = "buffer" =>
        /\ Len(cdc.got) <= Len(cdc.src)
        /\ \A i \in 1..Len(cdc.got) :
              /\ cdc.got[i] = encode(cdc.src[i])
              /\ cdc.got[i].body = cdc.src[i].body
        /\ cdc.buf \o cdc.pending =
              wire_all(SubSeq(cdc.src, Len(cdc.got) + 1, Len(cdc.src)))
        /\ cdc.last = "None" => ~HoldsNext
        /\ cdc.last = "Some" => cdc.got # <<>>
        /\ (cdc.last = "-" /\ cdc.buf # <<>>) =>
              (encode_buf(cdc.buf).req # None <=> HoldsNext)

\* encode has returned the first of two requests; of the second, every
\* byte but the last of its body is in the buffer, and the call on that
\* buffer returned None.
C24_Witness ==
    /\ cdc.pc = "buffer" /\ Len(cdc.src) = 2
    /\ cdc.src[2].body # <<>>
    /\ Len(cdc.got) = 1 /\ cdc.last = "None"
    /\ Len(cdc.pending) = 1
    /\ cdc.buf = SubSeq(wire(cdc.src[2]), 1, Len(wire(cdc.src[2])) - 1)

---------------------------------------------------------------------------

\* C25: in an intercepted tunnel the order is leaf, then TLS accept on the
\* upgraded stream, then upstream dial.  The accept is attempted only with
\* a leaf in hand, the origin is dialed only by a task whose accept had
\* completed before the dial, and a task whose accept failed has logged
\* the error and ended with no upstream connection opened.
C25_NoDialBeforeTlsAccept ==
    /\ [](\A c \in Conn :
            InIntercept(c) =>
                /\ "tls_accept" \in tdid[c] => tleaf[c] # NoLeaf
                /\ "accepted" \in tdid[c] => "tls_accept" \in tdid[c]
                /\ DialsOf(c) # {} => "accepted" \in tdid[c]
                /\ ("tls_accept" \in tdid[c] /\ "accepted" \notin tdid[c]) =>
                      /\ "server io error" \in tdid[c]
                      /\ tpc[c] = "done"
                      /\ DialsOf(c) = {})
    /\ [][\A c \in Conn :
            /\ (tpc[c] = "lookup" \/ InIntercept(c)) /\ DialsOf(c)' # DialsOf(c)
               => "accepted" \in tdid[c]
            /\ ("tls_accept" \in tdid'[c] /\ "tls_accept" \notin tdid[c])
               => tleaf[c] # NoLeaf /\ DialsOf(c)' = {}
         ]_vars

\* The TLS accept of one tunnel failed and the task ended without a dial,
\* while another tunnel minted its leaf, accepted TLS and then dialed.
C25_Witness ==
    \E c, d \in Conn :
        /\ "tls_accept" \in tdid[c] /\ "accepted" \notin tdid[c]
        /\ tpc[c] = "done" /\ DialsOf(c) = {}
        /\ {"minted", "accepted"} \subseteq tdid[d] /\ DialsOf(d) # {}

---------------------------------------------------------------------------
(* direct_tunnel once connected: io::copy_bidirectional(upgraded, server).  *)
(* a is the client's side (the upgraded stream), b the origin's.  Each      *)
(* direction reads from one side and writes to the other while Running;    *)
(* on EOF of its reader it shuts down its writer and is Done; the copy     *)
(* returns the two counts when its directions are done, or the first       *)
(* error.                                                                  *)

MaxBytes == 2       \* bytes each side sends before its end of stream

copy_done_at_first_eof(a_to_b, b_to_a) ==
    a_to_b.state = "Done" \/ b_to_a.state = "Done"

\* copy_bidirectional is Ready(Ok(..)) once both directions are Done
copy_done(a_to_b, b_to_a) ==
    a_to_b.state = "Done" /\ b_to_a.state = "Done"

\* one direction of the copy: its state, the bytes its reader has still to
\* deliver, the bytes written to its writer, and whether the writer was
\* shut down
Direction(bytes) ==
    [state |-> "Running", unread |-> bytes, written |-> <<>>, shut |-> FALSE]

CopyInit ==
    /\ config = DefaultConfig
    /\ root_ca = mk_ca_cert(1)
    /\ cache = <<>>
    /\ minted = 0
    /\ IdleConns
    /\ Running
    /\ pol = NoPol /\ sq = NoSq
    /\ boot = NoBoot /\ cdc = NoCdc /\ lg = NoLg
    /\ strm = NoStrm /\ sess = NoSess
    /\ \E from_a, from_b \in StringsUpTo(MaxBytes) :
          cp = [pc |-> "copying",
                sent |-> [a_to_b |-> from_a, b_to_a |-> from_b],
                a_to_b |-> Direction(from_a),
                b_to_a |-> Direction(from_b),
                log |-> <<>>]

copyFrame == <<config, root_ca, cache, minted, connVars, procVars,
               pol, sq, unitVars, strm, sess>>

\* transfer_one_direction, Running: a byte is read and written across
Transfer(dir) ==
    /\ cp.pc = "copying"
    /\ cp[dir].state = "Running"
    /\ cp[dir].unread # <<>>
    /\ cp' = [cp EXCEPT ![dir].unread = Tail(@),
                        ![dir].written = Append(@, cp[dir].unread[1])]
    /\ UNCHANGED copyFrame

\* transfer_one_direction, Running: the reader is at its end of stream
ReadEof(dir) ==
    /\ cp.pc = "copying"
    /\ cp[dir].state = "Running"
    /\ cp[dir].unread = <<>>
    /\ cp' = [cp EXCEPT ![dir].state = "ShuttingDown"]
    /\ UNCHANGED copyFrame

\* transfer_one_direction, ShuttingDown: poll_shutdown of the writer
Shutdown(dir) ==
    /\ cp.pc = "copying"
    /\ cp[dir].state = "ShuttingDown"
    /\ cp' = [cp EXCEPT ![dir].state = "Done", ![dir].shut = TRUE]
    /\ UNCHANGED copyFrame

\* copy_bidirectional returns Ok((from_client, from_server)); direct_tunnel
\* logs the two counts and returns Ok(())
CopyReturns ==
    /\ cp.pc = "copying"
    /\ copy_done(cp.a_to_b, cp.b_to_a)
    /\ cp' = [cp EXCEPT
                !.pc = "finished",
                !.log = Append(@, [client_wrote |-> Len(cp.a_to_b.written),
                                   received |-> Len(cp.b_to_a.written)])]
    /\ UNCHANGED copyFrame

\* a read, a write or a shutdown fails: copy_bidirectional(..).await?
\* returns the error, which the tunnel task logs
CopyFails ==
    /\ cp.pc = "copying"
    /\ ~copy_done(cp.a_to_b, cp.b_to_a)
    /\ cp' = [cp EXCEPT !.pc = "failed",
                        !.log = Append(@, [error |-> "server io error"])]
    /\ UNCHANGED copyFrame

CopyNext ==
    \/ \E dir \in {"a_to_b", "b_to_a"} :
          Transfer(dir) \/ ReadEof(dir) \/ Shutdown(dir)
    \/ CopyReturns
    \/ CopyFails

SpecCopy == CopyInit /\ [][CopyNext]_vars

\* s is the first bytes of t
IsPrefix(s, t) == Len(s) <= Len(t) /\ s = SubSeq(t, 1, Len(s))

\* every byte relayed so far is a byte its side sent, unmodified and in
\* order
RelayedInOrder ==
    \A dir \in {"a_to_b", "b_to_a"} :
        /\ IsPrefix(cp[dir].written, cp.sent[dir])
        /\ cp[dir].written \o cp[dir].unread = cp.sent[dir]

\* one side has reached its end of stream
SomeEof == cp.a_to_b.state # "Running" \/ cp.b_to_a.state # "Running"

\* C26, as claimed: a RAW_COPY tunnel relays the bytes of both directions
\* unmodified and in order and ends on the end of stream of either side:
\* once one side has reached it no further byte is relayed, and the task
\* finishes, reporting the two byte counts.
C26_CopyEndsAtFirstEof ==
    /\ [](cp.pc # "unused" => RelayedInOrder)
    /\ []((cp.pc = "copying"
             /\ (cp.a_to_b.state = "Done" \/ cp.b_to_a.state = "Done"))
           => ENABLED CopyReturns)
    /\ [][(cp.pc = "copying" /\ SomeEof) =>
             /\ cp'.a_to_b.written = cp.a_to_b.written
             /\ cp'.b_to_a.written = cp.b_to_a.written]_vars

\* C26: a RAW_COPY tunnel relays the bytes of both directions unmodified
\* and in order.  The end of stream of one side shuts down the writing
\* half of the other side and ends that direction only: the other
\* direction goes on relaying until its own reader ends.  The copy returns
\* once both sides have reached their end of stream, every byte of both
\* having been relayed, and only then the task reports the two byte
\* counts and finishes; a failed copy reports an error and no count.
C26_CopyEndsWhenBothSidesEnded ==
    /\ [](cp.pc # "unused" =>
            /\ RelayedInOrder
            /\ \A dir \in {"a_to_b", "b_to_a"} :
                  /\ cp[dir].state # "Running" => cp[dir].unread = <<>>
                  /\ cp[dir].shut <=> cp[dir].state = "Done"
                  /\ (cp.pc = "copying" /\ cp[dir].state = "Running")
                        => ENABLED (Transfer(dir) \/ ReadEof(dir))
            /\ cp.pc = "copying" => cp.log = <<>>
            /\ cp.pc = "finished" =>
                  /\ cp.a_to_b.state = "Done" /\ cp.b_to_a.state = "Done"
                  /\ cp.a_to_b.written = cp.sent.a_to_b
                  /\ cp.b_to_a.written = cp.sent.b_to_a
                  /\ cp.log = <<[client_wrote |-> Len(cp.sent.a_to_b),
                                 received |-> Len(cp.sent.b_to_a)]>>
            /\ cp.pc = "failed" =>
                  cp.log = <<[error |-> "server io error"]>>)
    /\ [][cp.pc = "copying" =>
             (cp'.pc = "finished" <=>
                (cp.a_to_b.state = "Done" /\ cp.b_to_a.state = "Done"
                   /\ cp'.log # cp.log))]_vars

\* The client sent nothing and closed; the origin's two bytes were relayed
\* to the client after that, and the task finished with the counts 0 and 2.
C26_Witness ==
    /\ cp.pc = "finished"
    /\ cp.sent.a_to_b = <<>> /\ Len(cp.sent.b_to_a) = MaxBytes
    /\ cp.b_to_a.written = cp.sent.b_to_a
    /\ cp.log = <<[client_wrote |-> 0, received |-> MaxBytes]>>

---------------------------------------------------------------------------
(* Plain HTTP requests in absolute form: the scheme http or https, with a  *)
(* port or without.  The actions after the accept are the main             *)
(* specification's.                                                        *)

PlainPorts == {0, 8080}     \* 0: the URI names no port

PlainRequests ==
    {[method |-> "GET", uri |-> Uri(s, <<h, p>>)] :
        s \in {"http", "https"}, h \in ReqHosts, p \in PlainPorts}

PlainInit ==
    /\ MainInit
    /\ config = DefaultConfig

\* a connection is accepted and proxy() runs on its plain HTTP request
ProxyPlain(c) ==
    /\ Accepting(c)
    /\ \E r \in PlainRequests : Handle(c, r)

PlainNext ==
    \E c \in Conn :
        \/ ProxyPlain(c)
        \/ PlainConnect(c)
        \/ PlainSend(c)

SpecPlain == PlainInit /\ [][PlainNext]_vars

\* C27: for a plain HTTP request the upstream address is the host and the
\* port of the request URI, the port being 80 by default only when the
\* port is omitted and the scheme is http; the request is forwarded over
\* plain TCP, with exactly one upstream dial, and the origin's response is
\* what the handler returns on the client's connection.
C27_PlainForwardsOnceToHostPort ==
    \A c \in Conn :
        (Handled(c) /\ ~IsConnect(c) /\ uri_host(req[c].uri) # NoHost) =>
            /\ Cardinality(DialsOf(c)) = IF hpc[c] = "connect" THEN 0 ELSE 1
            /\ \A d \in DialsOf(c) :
                  /\ ~d.tls
                  /\ d.addr[1] = uri_host(req[c].uri)
                  /\ req[c].uri.authority[2] # 0
                        => d.addr[2] = req[c].uri.authority[2]
                  /\ (req[c].uri.authority[2] = 0 /\ req[c].uri.scheme = "http")
                        => d.addr[2] = DEFAULT_PORT
                  /\ (req[c].uri.authority[2] = 0 /\ req[c].uri.scheme # "http")
                        => d.addr[2] # DEFAULT_PORT
            /\ hpc[c] = "done" => resp[c] = OriginResponse
            /\ resp[c] # NoResp => hpc[c] = "done"

---------------------------------------------------------------------------
(* An intercepted TLS session served in parse mode (transform_tunnel,      *)
(* parse = true): hyper's HTTP/1.1 server connection reads the client's    *)
(* requests off the accepted stream and calls HttpsClient for each, which  *)
(* dials the origin, sends the request and returns the response.  The     *)
(* server connection calls the service for one request at a time and      *)
(* writes its response before it reads the next; with keep-alive it goes   *)
(* on until the client closes.  sess keeps what the client wrote, what    *)
(* was forwarded and what was written back.                                *)

\* the requests a client sends on a session: GET /a, GET /b
SessRequests == {[method |-> "GET", path |-> p] : p \in {<<47, 97>>, <<47, 98>>}}

\* what the origin answers to the request r
OriginAnswer(r) == [status |-> 200, answers |-> r]

NoCall == [none |-> TRUE]

SessInit ==
    /\ config = [DefaultConfig EXCEPT !.parse = TRUE]
    /\ root_ca = mk_ca_cert(1)
    /\ cache = <<>>
    /\ minted = 0
    /\ IdleConns
    /\ Running
    /\ pol = NoPol /\ sq = NoSq
    /\ boot = NoBoot /\ cdc = NoCdc /\ lg = NoLg
    /\ cp = NoCp /\ strm = NoStrm
    /\ \E rs \in ListsUpTo(SessRequests, MaxRequests) :
          sess = [pc |-> "serving",
                  todo |-> rs,          \* what the client will still write
                  written |-> <<>>,     \* what the client wrote, in order
                  inbox |-> <<>>,       \* written and not read yet
                  call |-> NoCall,      \* the request the service is on
                  stage |-> "idle",
                  fwd |-> <<>>,         \* the requests sent to the origin
                  out |-> <<>>,         \* the responses written back
                  dials |-> 0]

sessFrame == <<config, root_ca, cache, minted, connVars, procVars,
               pol, sq, unitVars, cp, strm>>

\* the client writes its next request on the session, whether or not the
\* earlier ones were answered
ClientWrites ==
    /\ sess.pc = "serving"
    /\ sess.todo # <<>>
    /\ sess' = [sess EXCEPT !.todo = Tail(@),
                            !.written = Append(@, sess.todo[1]),
                            !.inbox = Append(@, sess.todo[1])]
    /\ UNCHANGED sessFrame

\* serve_connection with keep-alive: after a response the connection
\* reads on
after_response == "serving"

may_read_while_calling(call) == TRUE

\* serve_connection: a request is read only while no call is in progress
may_read(call) == call = NoCall

\* serve_connection reads the next request and calls HttpsClient::call,
\* which starts https_request(req, addr, sni)
ReadRequest ==
    /\ sess.pc = "serving"
    /\ may_read(sess.call)
    /\ sess.inbox # <<>>
    /\ sess' = [sess EXCEPT !.inbox = Tail(@),
                            !.call = sess.inbox[1],
                            !.stage = "dial"]
    /\ UNCHANGED sessFrame

\* https_request: get_ssl_connection(addr, &sni).await.unwrap()
SessDial ==
    /\ sess.pc = "serving" /\ sess.stage = "dial"
    /\ \E ok \in BOOLEAN :
          sess' = [sess EXCEPT !.dials = @ + 1,
                               !.stage = IF ok THEN "send" ELSE @,
                               !.pc = IF ok THEN @ ELSE "panicked"]
    /\ UNCHANGED sessFrame

\* https_request: handshake(output).await?, then
\* sender.send_request(req).await writes the request to the origin
SessForward ==
    /\ sess.pc = "serving" /\ sess.stage = "send"
    /\ \E ok \in BOOLEAN :
          IF ok
          THEN sess' = [sess EXCEPT !.fwd = Append(@, sess.call),
                                    !.stage = "wait"]
          ELSE sess' = [sess EXCEPT !.pc = "failed"]
    /\ UNCHANGED sessFrame

\* https_request: send_request(req).await? returns the origin's response,
\* Ok(resp.map(|b| b.boxed())), which the server connection writes back
SessRespond ==
    /\ sess.pc = "serving" /\ sess.stage = "wait"
    /\ \E ok \in BOOLEAN :
          IF ok
          THEN sess' = [sess EXCEPT !.out = Append(@, OriginAnswer(sess.call)),
                                    !.call = NoCall,
                                    !.stage = "idle",
                                    !.pc = after_response]
          ELSE sess' = [sess EXCEPT !.pc = "failed"]
    /\ UNCHANGED sessFrame

\* the client ends the session: serve_connection completes
SessClose ==
    /\ sess.pc = "serving"
    /\ sess.call = NoCall /\ sess.inbox = <<>>
    /\ sess' = [sess EXCEPT !.pc = "closed"]
    /\ UNCHANGED sessFrame

SessNext ==
    \/ ClientWrites
    \/ ReadRequest
    \/ SessDial
    \/ SessForward
    \/ SessRespond
    \/ SessClose

SpecSession == SessInit /\ [][SessNext]_vars

\* C28: in parse mode the requests received on one intercepted TLS session
\* are forwarded to the origin in the order received, and their responses
\* are written back in that order, one at a time: request k+1 is not
\* forwarded before the response to request k was returned, each request
\* has its own upstream dial, and after a response the session is still
\* served: a further request is read and forwarded.
C28_SessionKeepsRequestOrder ==
    sess.pc # "unused" =>
        /\ IsPrefix(sess.fwd, sess.written)
        /\ Len(sess.out) <= Len(sess.fwd)
        /\ Len(sess.fwd) <= Len(sess.out) + 1
        /\ \A i \in 1..Len(sess.out) : sess.out[i] = OriginAnswer(sess.written[i])
        /\ sess.written = SubSeq(sess.written, 1, Len(sess.out))
              \o (IF sess.call = NoCall THEN <<>> ELSE <<sess.call>>)
              \o sess.inbox
        /\ Len(sess.fwd) <= sess.dials
        /\ sess.dials <= Len(sess.out) + 1
        /\ (sess.out # <<>> /\ sess.call = NoCall) =>
              /\ sess.pc \in {"serving", "closed"}
              /\ sess.inbox # <<>> =>
                    sess.pc = "serving" /\ ENABLED ReadRequest

\* The client wrote GET /a and GET /b before any answer; the answer to
\* GET /a has been written back, GET /b has been forwarded after that and
\* its answer is awaited.
C28_Witness ==
    /\ sess.pc = "serving"
    /\ Len(sess.written) = 2 /\ sess.written[1] # sess.written[2]
    /\ sess.out = <<OriginAnswer(sess.written[1])>>
    /\ sess.fwd = sess.written
    /\ sess.stage = "wait"

---------------------------------------------------------------------------
(* HttpClientStream::poll_write of stream.rs.  A caller writes the bytes   *)
(* of its requests through the wrapper: it passes the bytes it has left,   *)
(* or the first of them, and after Pending it calls again with the same    *)
(* bytes left.  strm keeps the wrapper's write_buf, the bytes the inner    *)
(* stream took, and the bytes the wrapper reported as accepted.            *)

MaxPendings == 1    \* times the inner stream answers Pending

\* the InterceptFn installed by with_intercept: one that returns its
\* request as it is
before(r) == r

\* what a request written through an intercepting wrapper is to arrive as
rewritten(w) == decode(before(encode(w)))

RECURSIVE rewritten_all(_)
rewritten_all(ws) ==
    IF ws = <<>> THEN <<>> ELSE rewritten(ws[1]) \o rewritten_all(Tail(ws))

StreamInit ==
    /\ config = DefaultConfig
    /\ root_ca = mk_ca_cert(1)
    /\ cache = <<>>
    /\ minted = 0
    /\ IdleConns
    /\ Running
    /\ pol = NoPol /\ sq = NoSq
    /\ boot = NoBoot /\ cdc = NoCdc /\ lg = NoLg
    /\ cp = NoCp /\ sess = NoSess
    /\ \E ws \in ListsUpTo(BufRequests, MaxRequests), intercept \in BOOLEAN :
          strm = [pc |-> "open",
                  before |-> intercept,     \* self.before is Some
                  src |-> ws,
                  todo |-> wire_all(ws),    \* the caller's bytes left
                  write_buf |-> <<>>,
                  inner |-> <<>>,           \* bytes the inner stream took
                  accepted |-> <<>>,        \* bytes reported as accepted
                  pendings |-> 0]

streamFrame == <<config, root_ca, cache, minted, connVars, procVars,
                 pol, sq, unitVars, cp, sess>>

\* inner.poll_write(cx, bytes): Pending, or Ready(Ok(n)) with n of the
\* bytes taken, 1 <= n <= bytes.len()
InnerWrites(bytes) ==
    {[pending |-> TRUE, n |-> 0]}
        \cup {[pending |-> FALSE, n |-> n] : n \in {1, Len(bytes)} \ {0}}

\* poll_write(cx, buf) with Some(before): the bytes go to write_buf; when
\* encode finds a request it is rewritten and written to the inner stream
\* with one poll_write, whose Pending is returned and whose count is not
\* looked at; otherwise Ready(Ok(buf.len()))
poll_write_intercept(s, buf, w) ==
    LET r == encode_buf(s.write_buf \o buf)
    IN  IF r.req = None
        THEN [s EXCEPT !.write_buf = r.buf,
                       !.accepted = @ \o buf,
                       !.todo = drain(@, Len(buf))]
        ELSE IF w.pending
        THEN [s EXCEPT !.write_buf = r.buf,
                       !.pendings = @ + 1]
        ELSE [s EXCEPT !.write_buf = r.buf,
                       !.inner = @ \o SubSeq(decode(before(r.req)), 1, w.n),
                       !.accepted = @ \o buf,
                       !.todo = drain(@, Len(buf))]

\* poll_write(cx, buf) with before = None: me.inner.poll_write(cx, buf)
poll_write_through(s, buf, w) ==
    IF w.pending
    THEN [s EXCEPT !.pendings = @ + 1]
    ELSE [s EXCEPT !.inner = @ \o SubSeq(buf, 1, w.n),
                   !.accepted = @ \o SubSeq(buf, 1, w.n),
                   !.todo = drain(@, w.n)]

\* the bytes the inner stream is asked to take by this call
ToInner(s, buf) ==
    IF s.before
    THEN LET r == encode_buf(s.write_buf \o buf)
         IN  IF r.req = None THEN <<>> ELSE decode(before(r.req))
    ELSE buf

\* one poll_write call of the caller, with the first n of its bytes left
PollWrite(n) ==
    /\ strm.pc = "open"
    /\ n >= 1 /\ n <= Len(strm.todo)
    /\ LET buf == SubSeq(strm.todo, 1, n)
       IN  \E w \in InnerWrites(ToInner(strm, buf)) :
              /\ w.pending => strm.pendings < MaxPendings
              /\ (~w.pending /\ ToInner(strm, buf) = <<>>) => w.n = 0
              /\ strm' = IF strm.before
                         THEN poll_write_intercept(strm, buf, w)
                         ELSE poll_write_through(strm, buf, w)
    /\ UNCHANGED streamFrame

\* the caller passes one byte, or all it has left
StreamNext == \E n \in {1, Len(strm.todo)} : PollWrite(n)

SpecStream == StreamInit /\ [][StreamNext]_vars

\* C29: without an intercept function the inner stream has taken exactly
\* the bytes the wrapper reported as accepted.  With one, the inner stream
\* has taken the rewritten requests of the first requests written, each
\* whole, once and in order, and the accepted bytes are the bytes of those
\* requests followed by the bytes still in write_buf: whatever the calls,
\* their Pending answers and the inner stream's partial writes, no request
\* is lost, duplicated or truncated.
C29_AcceptedBytesReachInnerOnce ==
    strm.pc = "open" =>
        IF strm.before
        THEN \E j \in 0..Len(strm.src) :
                /\ strm.inner = rewritten_all(SubSeq(strm.src, 1, j))
                /\ strm.accepted = wire_all(SubSeq(strm.src, 1, j)) \o strm.write_buf
        ELSE strm.inner = strm.accepted


---------------------------------------------------------------------------
(* The hosts of the leaf cache and the requests handled *)

\* connection c was handled as a CONNECT to a host is_proxy accepts
ProxiedConnect(c) ==
    /\ Handled(c)
    /\ req[c].method = "CONNECT"
    /\ host_addr(req[c].uri) # NoAddr
    /\ is_proxy(config.proxy_hosts, THost(c))

ProxiedHosts == {THost(c) : c \in {d \in Conn : ProxiedConnect(d)}}

\* the step is one of connection c: of its proxy() call or of its tunnel
StepOf(c) == hpc'[c] # hpc[c] \/ tpc'[c] # tpc[c] \/ tdid'[c] # tdid[c]

\* C30: the hosts of the leaf cache are among the hosts of the CONNECTs
\* handled whose host is_proxy accepts, and the cache is changed (an entry
\* added, replaced, evicted or moved) by no step of a connection whose
\* request is a plain one, a CONNECT without authority or a CONNECT to a
\* host is_proxy refuses.
C30_CacheHoldsProxiedHostsOnly ==
    /\ [](cache_keys(cache) \subseteq ProxiedHosts)
    /\ [][\A c \in Conn :
             (StepOf(c) /\ ~ProxiedConnect(c)') => cache' = cache]_vars

\* a leaf is cached for one connection while a plain request, a CONNECT
\* without authority or a tunnel to a host that is not proxied has run to
\* its end on another
C30_Witness ==
    /\ cache # <<>>
    /\ \E c \in Conn :
          /\ Handled(c)
          /\ ~ProxiedConnect(c)
          /\ \/ (req[c].method # "CONNECT" /\ hpc[c] = "done")
             \/ (req[c].method = "CONNECT"
                   /\ host_addr(req[c].uri) = NoAddr /\ resp[c].status = 400)
             \/ "raw_copy" \in tdid[c]


---------------------------------------------------------------------------
(* load_or_create, its generate branch step by step: mk_ca_cert, the two   *)
(* File::create calls of one try_join!, the two write calls of the next,   *)
(* each of which may fail, and the process may be killed between any two   *)
(* of them.  boot keeps the run in progress: the files it found, the root  *)
(* it generated, the files it has created and written so far.              *)

CaPaths == {"cert", "key"}

Interrupted == [error |-> TRUE, killed |-> TRUE]

\* File::create(path): the file exists and holds no byte
created_file == [label |-> "none", der |-> <<>>]

\* a file holding the first bytes of a PEM block only: it has no END line
part_of(pem) == [label |-> "none", der |-> pem.der]

\* the PEM the run writes at path f
pem_of(ca, f) ==
    IF f = "cert" THEN to_pem(ca.cert) ELSE private_key_to_pem_pkcs8(ca.key)

\* what may lie at the CA paths before the first start: no file, one file
\* of a root, or both files of one root
CrashInit ==
    /\ config = DefaultConfig
    /\ root_ca = mk_ca_cert(1)
    /\ cache = <<>>
    /\ minted = 0
    /\ IdleConns
    /\ NoStreams
    /\ lock = FreeLock
    /\ main_pc = "startup"
    /\ pol = NoPol /\ sq = NoSq /\ cdc = NoCdc /\ lg = NoLg
    /\ \E g \in RootGens, has \in SUBSET CaPaths :
          boot = [pc |-> "down",
                  files |-> [f \in CaPaths |->
                               IF f \in has THEN FilesOf(g)[f] ELSE NoFile],
                  gens |-> Cardinality(RootGens),
                  runs |-> <<>>,
                  found |-> [f \in CaPaths |-> NoFile],
                  ca |-> StartupError,
                  created |-> {},
                  written |-> {}]

crashFrame == <<config, root_ca, cache, minted, connVars, procVars, ioVars,
                pol, sq, cdc, lg>>

\* the run in progress returns (or the process dies) with this result
Ends(b, pc, branch, result) ==
    [b EXCEPT !.pc = pc,
              !.runs = Append(@, [found |-> b.found, branch |-> branch,
                                  left |-> b.files, result |-> result]),
              !.created = {},
              !.written = {}]

\* the process is started and load_or_create opens both files: when both
\* open the run reads and parses them and returns; otherwise it generates
\* a root with mk_ca_cert, whose Err it returns
CrashStart ==
    /\ boot.pc \in {"down", "failed", "up"}
    /\ Len(boot.runs) < MaxBoots
    /\ LET b == [boot EXCEPT !.found = boot.files]
       IN  IF boot.files.cert # NoFile /\ boot.files.key # NoFile
           THEN LET r == load_or_create(boot.files, boot.gens, TRUE)
                IN  boot' = Ends(b, IF r.result = StartupError
                                    THEN "failed" ELSE "up",
                                 r.branch, r.result)
           ELSE \E mk_ok \in BOOLEAN :
                   IF mk_ok
                   THEN boot' = [b EXCEPT !.pc = "create",
                                          !.gens = @ + 1,
                                          !.ca = mk_ca_cert(boot.gens + 1)]
                   ELSE boot' = Ends(b, "failed", "create", StartupError)
    /\ UNCHANGED crashFrame

\* tokio::try_join!(File::create(cert_path), File::create(key_path))?: one
\* of the two files is created or truncated, or its create fails and the
\* run returns the error
Create(f) ==
    /\ boot.pc = "create"
    /\ f \notin boot.created
    /\ \E ok \in BOOLEAN :
          IF ok
          THEN boot' = [boot EXCEPT
                          !.files[f] = created_file,
                          !.created = @ \cup {f},
                          !.pc = IF boot.created \cup {f} = CaPaths
                                 THEN "write" ELSE "create"]
          ELSE boot' = Ends(boot, "failed", "create", StartupError)
    /\ UNCHANGED crashFrame

\* tokio::try_join!(cert_file.write(&cert_pem), key_file.write(&key_pem))?:
\* one write call for each file, which takes all the bytes, or the first
\* of them (Ok(n) with n below the length, which the run does not look
\* at), or fails, the run returning the error
Write(f) ==
    /\ boot.pc = "write"
    /\ f \notin boot.written
    /\ \E how \in {"all", "part", "error"} :
          IF how = "error"
          THEN boot' = Ends(boot, "failed", "create", StartupError)
          ELSE boot' = [boot EXCEPT
                          !.files[f] = IF how = "all"
                                       THEN pem_of(boot.ca, f)
                                       ELSE part_of(pem_of(boot.ca, f)),
                          !.written = @ \cup {f}]
    /\ UNCHANGED crashFrame

\* both writes returned Ok: the run returns Ok(ca)
Return ==
    /\ boot.pc = "write"
    /\ boot.written = CaPaths
    /\ boot' = Ends(boot, "up", "create", boot.ca)
    /\ UNCHANGED crashFrame

\* the process is killed while the run is between two steps of the
\* generate branch
Kill ==
    /\ boot.pc \in {"create", "write"}
    /\ boot' = Ends(boot, "down", "create", Interrupted)
    /\ UNCHANGED crashFrame

CrashNext ==
    \/ CrashStart
    \/ \E f \in CaPaths : Create(f)
    \/ \E f \in CaPaths : Write(f)
    \/ Return
    \/ Kill

SpecCrash == CrashInit /\ [][CrashNext]_vars

\* the run returned Ok
RunOk(run) == "error" \notin DOMAIN run.result

\* the run took the generate branch, created or truncated a file and then
\* failed or was interrupted
BrokenGenerate(run) ==
    /\ run.branch = "create"
    /\ ~RunOk(run)
    /\ run.left # run.found

\* the certificate and the key are those of one generated root
SameGeneration(ca) == \E g \in 1..boot.gens : ca = mk_ca_cert(g)

\* C31: after a run of the generate branch that failed or was interrupted
\* once it had created a file, every later run that loads the files
\* returns a certificate and a key of one generation, and every later run
\* that regenerates and returns leaves both files complete and returns
\* that pair: no later run fails on the files left.
C31_LeftoverFilesNeverBlockStartup ==
    \A i \in 1..Len(boot.runs) : \A j \in (i + 1)..Len(boot.runs) :
        BrokenGenerate(boot.runs[i]) =>
            LET run == boot.runs[j]
            IN  /\ run.branch = "load" =>
                      RunOk(run) /\ SameGeneration(run.result)
                /\ (run.branch = "create" /\ RunOk(run)) =>
                      /\ SameGeneration(run.result)
                      /\ run.left = [f \in CaPaths |-> pem_of(run.result, f)]

=============================================================================
